---- MODULE Spec2Model ----
(***************************************************************************)
(* A model of the emulateme NES core: the PPU register file and its        *)
(* address space (src/src/ppu.rs), the CPU bus (src/src/memory.rs) and the *)
(* 6502 interpreter (src/src/interpreter.rs, src/src/decoder.rs).          *)
(*                                                                         *)
(* Values are the source's unsigned integers.  Arrays that start zeroed    *)
(* (ram, saved, the name tables, the ROM images) are finite maps holding   *)
(* only the entries that differ from "never written"; a missing entry      *)
(* reads as 0.  A Rust panic (an index out of bounds, an arithmetic        *)
(* overflow in a build with overflow checks) is the result "Panic", after  *)
(* which the emulator object is gone and nothing more happens.             *)
(***************************************************************************)
EXTENDS Integers, Sequences, FiniteSets, TLC

VARIABLES
    rom,            \* Rom: flags.mirroring, prg_rom, chr_rom (immutable)
    build,          \* the build profile: overflow_checks on (debug) or off (release)
    registers,      \* Cpu.registers: pc, a, x, y, p, sp
    vectors,        \* Cpu.vectors: nmi, reset, interrupt
    memory,         \* Cpu.memory: cycles, ram, saved, controllers, ppu
    hist,           \* the calls made so far, each with the state before it and its result
    fault,          \* TRUE once a call has panicked
    renderer,       \* SoftwareRenderer: scan_x, scan_y, last_cycle, pre_rendered_sprites, frame
    peer,           \* a second Cpu the host holds: restored from a CpuState or built for a second run
    gui,            \* emgui: the GuiController latch, its mutex, and the two threads that use it
    server          \* emserver: the connection's Delimiter, its byte stream and the replies sent

vars == <<rom, build, registers, vectors, memory, hist, fault, renderer, peer, gui, server>>

----------------------------------------------------------------------------
(* Bit arithmetic on unsigned integers.                                     *)

RECURSIVE And(_, _)
And(a, b) ==
    IF a = 0 \/ b = 0 THEN 0
    ELSE (a % 2) * (b % 2) + 2 * And(a \div 2, b \div 2)

Or(a, b) == a + b - And(a, b)

Xor(a, b) == a + b - 2 * And(a, b)

Shl(a, n) == a * 2^n

Shr(a, n) == a \div 2^n

U8(n) == n % 256

U16(n) == n % 65536

Not8(a) == 255 - a

----------------------------------------------------------------------------
(* Zero-initialised arrays as finite maps.                                  *)

Empty == <<>>

Rd(f, i) == IF i \in DOMAIN f THEN f[i] ELSE 0

Wr(f, i, b) == [j \in (DOMAIN f) \cup {i} |-> IF j = i THEN b ELSE f[j]]

----------------------------------------------------------------------------
(* Results of fallible calls: Ok(value), Err(error, address) or a panic.    *)

Ok(b) == [tag |-> "Ok", value |-> b, err |-> "", at |-> 0]

Err(e, a) == [tag |-> "Err", value |-> 0, err |-> e, at |-> a]

Panic == [tag |-> "Panic", value |-> 0, err |-> "", at |-> 0]

IsOk(r) == r.tag = "Ok"

(* `let x = v; F(x)`, with v computed once.                                 *)
With(v, F(_)) == CHOOSE y \in {F(x) : x \in {v}} : TRUE

----------------------------------------------------------------------------
(* src/src/ppu.rs: the register file.                                       *)

SPRITE_COUNT == 64

DefaultSprite == [y |-> \hFF, number |-> 0, mask |-> 0, x |-> 0]

SpriteRead(s, address) ==
    CASE address = 0 -> s.y
      [] address = 1 -> s.number
      [] address = 2 -> s.mask
      [] address = 3 -> s.x

SpriteWrite(s, address, value) ==
    CASE address = 0 -> [s EXCEPT !.y = value]
      [] address = 1 -> [s EXCEPT !.number = value]
      [] address = 2 -> [s EXCEPT !.mask = value]
      [] address = 3 -> [s EXCEPT !.x = value]

ControlFromBits(value) ==
    [ increment_32                  |-> And(value, \b00000100) # 0,
      base_sprite_pattern_table     |-> And(value, \b00001000) # 0,
      base_background_pattern_table |-> And(value, \b00010000) # 0,
      sprite_size                   |-> And(value, \b00100000) # 0,
      ppu_color_ext                 |-> And(value, \b01000000) # 0,
      gen_nmi                       |-> And(value, \b10000000) # 0 ]

MaskFromBits(value) ==
    [ greyscale                |-> And(value, \b00000001) # 0,
      show_background_leftmost |-> And(value, \b00000010) # 0,
      show_sprites_leftmost    |-> And(value, \b00000100) # 0,
      show_background          |-> And(value, \b00001000) # 0,
      show_sprites             |-> And(value, \b00010000) # 0,
      emphasize_red            |-> And(value, \b00100000) # 0,
      emphasize_green          |-> And(value, \b01000000) # 0,
      emphasize_blue           |-> And(value, \b10000000) # 0 ]

StatusBits(status) ==
    LET sprite_hit  == IF status.sprite_hit THEN \b01000000 ELSE 0
        v_blank_hit == IF status.v_blank_hit THEN \b10000000 ELSE 0
    IN  Or(sprite_hit, v_blank_hit)

DefaultStatus == [sprite_hit |-> FALSE, v_blank_hit |-> TRUE]

DefaultRender == [t |-> 0, v |-> 0, x |-> 0, w |-> FALSE]

DefaultPpuRegisters ==
    [ control     |-> ControlFromBits(0),
      mask        |-> MaskFromBits(0),
      status      |-> DefaultStatus,
      render      |-> DefaultRender,
      oam_address |-> 0,
      read_buffer |-> 0 ]

(* RenderRegister: the loopy registers t, v, x and the write latch w.       *)

write_control(render, value) ==
    [render EXCEPT !.t = Or(And(render.t, \b1111001111111111),
                            Shl(And(value, \b11), 10))]

render_read_status(render) == [render EXCEPT !.w = FALSE]

(* Variants of the two latched writes, used to show that the latch         *)
(* properties below depend on the code they are checked against: a scroll  *)
(* write that keeps its own latch, and an address write that keeps seven   *)
(* bits of the high byte.                                                  *)
write_scroll_own_latch(render, value) ==
    IF render.w
    THEN [render EXCEPT !.t = Or(And(render.t, \b0000110000011111),
                                 Or(Shl(And(value, \b111), 12),
                                    Shl(And(value, \b11111000), 2)))]
    ELSE [render EXCEPT !.t = Or(And(render.t, \b1111111111100000),
                                 Shr(And(value, \b11111000), 3)),
                        !.x = And(value, \b111)]

write_address_seven_bits(render, value) ==
    IF render.w
    THEN LET t == Or(And(render.t, \b1111111100000000), value)
         IN  [render EXCEPT !.t = t, !.v = t, !.w = ~render.w]
    ELSE [render EXCEPT
            !.t = Or(And(render.t, \b0000000011111111),
                     Shl(And(value, \b01111111), 8)),
            !.w = ~render.w]

(* write_scroll with four bits of the value taken as fine y.                 *)
write_scroll_four_bits(render, value) ==
    IF render.w
    THEN [render EXCEPT
            !.t = Or(Or(And(render.t, \b0000110000011111),
                        Shl(And(value, \b1111), 12)),
                     Shl(And(value, \b11111000), 2)),
            !.w = ~render.w]
    ELSE [render EXCEPT
            !.t = Or(And(render.t, \b1111111111100000),
                     Shr(And(value, \b11111000), 3)),
            !.x = And(value, \b111),
            !.w = ~render.w]

render_write_scroll(render, value) ==
    IF render.w
    THEN LET low  == Shl(And(value, \b111), 12)
             high == Shl(And(value, \b11111000), 2)
         IN  [render EXCEPT
                !.t = Or(Or(And(render.t, \b0000110000011111), low), high),
                !.w = ~render.w]
    ELSE [render EXCEPT
            !.t = Or(And(render.t, \b1111111111100000),
                     Shr(And(value, \b11111000), 3)),
            !.x = And(value, \b111),
            !.w = ~render.w]

render_write_address(render, value) ==
    IF render.w
    THEN LET t == Or(And(render.t, \b1111111100000000), value)
         IN  [render EXCEPT !.t = t, !.v = t, !.w = ~render.w]
    ELSE [render EXCEPT
            !.t = Or(And(render.t, \b0000000011111111),
                     Shl(And(value, \b00111111), 8)),
            !.w = ~render.w]

----------------------------------------------------------------------------
(* src/src/ppu.rs: PaletteMemory and PpuMemory.                             *)

DefaultPalette ==
    [ background_solid |-> 0,
      background |-> [page \in 0..3 |-> [index \in 0..2 |-> 0]],
      sprite     |-> [page \in 0..3 |-> [index \in 0..2 |-> 0]] ]

(* `(address - K) as usize` on a u16: the subtraction overflows when        *)
(* address < K; a build with overflow checks panics (-1 here), any other    *)
(* build wraps.                                                             *)
SubU16(address, k) ==
    IF address >= k THEN address - k
    ELSE IF build.overflow_checks THEN -1
    ELSE address - k + 65536

(* table[page][index] on a [[u8; 3]; 4]: out of bounds panics.              *)
PaletteEntry(table, base) ==
    LET page  == base \div 4
        index == base % 4
    IN  IF base < 0 \/ page > 3 \/ index > 2 THEN Panic
        ELSE Ok(table[page][index])

PaletteGet(palette, address0) ==
    LET address == address0 % \h20
    IN  CASE address = \h00 -> Ok(palette.background_solid)
          [] address \in \h01..\h0F ->
                PaletteEntry(palette.background, SubU16(address, \h3F01))
          [] address = \h10 -> Ok(palette.background_solid)
          [] address \in \h11..\h1F ->
                PaletteEntry(palette.sprite, SubU16(address, \h3F11))
          [] OTHER -> Err("PaletteAccess", address)

(* The new palette after set(address, value); set never fails for an        *)
(* address below 0x20 and drops a write whose index is 3.                   *)
PaletteSet(palette, address0, value) ==
    LET address == address0 % \h20
    IN  CASE address = \h00 -> [palette EXCEPT !.background_solid = value]
          [] address \in \h01..\h0F ->
                LET base  == address - \h01
                    page  == base \div 4
                    index == base % 4
                IN  IF index < 3
                    THEN [palette EXCEPT !.background[page][index] = value]
                    ELSE palette
          [] address = \h10 -> [palette EXCEPT !.background_solid = value]
          [] address \in \h11..\h1F ->
                LET base  == address - \h11
                    page  == base \div 4
                    index == base % 4
                IN  IF index < 3
                    THEN [palette EXCEPT !.sprite[page][index] = value]
                    ELSE palette

(* oam[i] of the [Sprite; SPRITE_COUNT] array, held as a finite map of the   *)
(* sprites that differ from Sprite::default().                              *)
OamRd(oam, i) == IF i \in DOMAIN oam THEN oam[i] ELSE DefaultSprite

OamWr(oam, i, s) == [j \in (DOMAIN oam) \cup {i} |-> IF j = i THEN s ELSE oam[j]]

DefaultPpuMemory ==
    [ oam     |-> Empty,
      names   |-> [page \in 0..3 |-> Empty],
      palette |-> DefaultPalette ]

(* rom.chr_rom[address]: the index panics past the end of the CHR image.    *)
ChrRead(address) ==
    IF address < rom.chr_len THEN Ok(Rd(rom.chr_rom, address)) ELSE Panic

PpuMemoryRead(mem, address) ==
    CASE address \in \h0000..\h1FFF -> ChrRead(address)
      [] address \in \h2000..\h3EFF ->
            LET base  == address - \h2000
                page  == (base \div \h400) % 4
                index == base % \h400
            IN  Ok(Rd(mem.names[page], index))
      [] address \in \h3F00..\h3FFF -> PaletteGet(mem.palette, address - \h3F00)
      [] OTHER -> Err("UnmappedRead", address)

(* [mem, res]: the memory after write(address, value) and its result.       *)
PpuMemoryWrite(mem, address, value) ==
    CASE address \in \h2000..\h3EFF ->
            LET base  == address - \h2000
                page  == (base \div \h400) % 4
                index == base % \h400
            IN  [ mem |-> [mem EXCEPT !.names[page] = Wr(@, index, value)],
                  res |-> Ok(0) ]
      [] address \in \h3F00..\h3FFF ->
            [ mem |-> [mem EXCEPT
                         !.palette = PaletteSet(@, address - \h3F00, value)],
              res |-> Ok(0) ]
      [] OTHER -> [mem |-> mem, res |-> Err("UnmappedWrite", address)]

----------------------------------------------------------------------------
(* src/src/ppu.rs: Ppu, the operations the CPU bus calls.  Each gives       *)
(* [ppu, res]: the Ppu after the call and what the call returned.           *)

NewPpu == [registers |-> DefaultPpuRegisters, memory |-> DefaultPpuMemory]

(* `a += b` on a u16: -1 for the panic of a build with overflow checks.     *)
AddU16(a, b) ==
    IF a + b <= \hFFFF THEN a + b
    ELSE IF build.overflow_checks THEN -1
    ELSE U16(a + b)

write_ctrl(ppu, value) ==
    [ ppu |-> [ppu EXCEPT !.registers.control = ControlFromBits(value),
                          !.registers.render = write_control(@, value)],
      res |-> Ok(0) ]

write_mask(ppu, value) ==
    [ ppu |-> [ppu EXCEPT !.registers.mask = MaskFromBits(value)],
      res |-> Ok(0) ]

read_status(ppu) ==
    [ ppu |-> [ppu EXCEPT !.registers.render = render_read_status(@)],
      res |-> Ok(StatusBits(ppu.registers.status)) ]

write_oam_address(ppu, value) ==
    [ ppu |-> [ppu EXCEPT !.registers.oam_address = value],
      res |-> Ok(0) ]

read_oam_data(ppu) ==
    LET sprite == ppu.registers.oam_address \div 4
        index  == ppu.registers.oam_address % 4
    IN  [ppu |-> ppu, res |-> Ok(SpriteRead(OamRd(ppu.memory.oam, sprite), index))]

write_oam_data(ppu, value) ==
    LET sprite == ppu.registers.oam_address \div 4
        index  == ppu.registers.oam_address % 4
    IN  [ ppu |-> [ppu EXCEPT
                     !.memory.oam = OamWr(@, sprite,
                                          SpriteWrite(OamRd(@, sprite), index, value))],
          res |-> Ok(0) ]

write_scroll(ppu, value) ==
    [ ppu |-> [ppu EXCEPT !.registers.render = render_write_scroll(@, value)],
      res |-> Ok(0) ]

write_address(ppu, value) ==
    [ ppu |-> [ppu EXCEPT !.registers.render = render_write_address(@, value)],
      res |-> Ok(0) ]

(* v += 32 or v += 1, by control.increment_32.                              *)
IncrementV(ppu) ==
    AddU16(ppu.registers.render.v,
           IF ppu.registers.control.increment_32 THEN 32 ELSE 1)

(* write_data with the increment of v made whether or not the write went    *)
(* through.                                                                 *)
write_data_counting(ppu, value) ==
    LET w == PpuMemoryWrite(ppu.memory, ppu.registers.render.v, value)
        v == IncrementV(ppu)
    IN  IF v < 0 THEN [ppu |-> ppu, res |-> Panic]
        ELSE [ ppu |-> [ppu EXCEPT !.memory = w.mem,
                                   !.registers.render.v = v],
               res |-> w.res ]

write_data(ppu, value) ==
    LET w == PpuMemoryWrite(ppu.memory, ppu.registers.render.v, value)
        v == IncrementV(ppu)
    IN  IF ~IsOk(w.res) THEN [ppu |-> ppu, res |-> w.res]
        ELSE IF v < 0 THEN [ppu |-> ppu, res |-> Panic]
        ELSE [ ppu |-> [ppu EXCEPT !.memory = w.mem,
                                   !.registers.render.v = v],
               res |-> Ok(0) ]

read_data(ppu) ==
    LET result == ppu.registers.read_buffer
        r      == PpuMemoryRead(ppu.memory, ppu.registers.render.v)
        v      == IncrementV(ppu)
    IN  IF ~IsOk(r) THEN [ppu |-> ppu, res |-> r]
        ELSE IF v < 0 THEN [ppu |-> ppu, res |-> Panic]
        ELSE [ ppu |-> [ppu EXCEPT !.registers.read_buffer = r.value,
                                   !.registers.render.v = v],
               res |-> Ok(result) ]

(* data is the 256 bytes of the page, as a function on 0..255.              *)
replace_oam(ppu, data) ==
    [ppu EXCEPT !.memory.oam =
        [i \in 0..(SPRITE_COUNT - 1) |->
            [ y      |-> data[i * 4],
              number |-> data[i * 4 + 1],
              mask   |-> data[i * 4 + 2],
              x      |-> data[i * 4 + 3] ]]]

----------------------------------------------------------------------------
(* src/src/memory.rs: Memory, the CPU bus.  m is the Memory struct; each    *)
(* operation gives [m, res].                                                *)

NoController == [kind |-> "NoController", clock |-> 0, flags |-> 0]

GenericController == [kind |-> "GenericController", clock |-> 0, flags |-> 0]

(* GenericController::press and GenericController::set on the latch.        *)
press(c, flags) == [c EXCEPT !.flags = flags]

controller_set(c, flag, value) ==
    [c EXCEPT !.flags = IF value THEN Or(@, flag) ELSE And(@, Not8(flag))]

(* Controller::read with the clock used as the bit number without `% 8`.    *)
controller_read_unwrapped(c) ==
    IF c.kind = "NoController" THEN [c |-> c, res |-> Ok(0)]
    ELSE [ c   |-> [c EXCEPT !.clock = c.clock + 1],
           res |-> Ok(IF c.clock < 8 /\ And(c.flags, Shl(1, c.clock)) # 0
                      THEN 1 ELSE 0) ]

(* Controller::read: [controller, res].                                     *)
ControllerRead(c) ==
    IF c.kind = "NoController" THEN [c |-> c, res |-> Ok(0)]
    ELSE LET clock == c.clock % 8
             value == And(c.flags, Shl(1, clock)) # 0
         IN  [ c   |-> [c EXCEPT !.clock = c.clock + 1],
               res |-> Ok(IF value THEN 1 ELSE 0) ]

NewMemory(controllers) ==
    [ cycles      |-> 0,
      ram         |-> Empty,
      ppu         |-> NewPpu,
      saved       |-> Empty,
      controllers |-> controllers ]

(* cycle leaving the counter as it is.                                      *)
cycle_stalled(m) == m

cycle(m) == [m EXCEPT !.cycles = m.cycles + 1]

cycle_many(m, times) == [m EXCEPT !.cycles = m.cycles + times]

(* From<PpuMemoryError> for MemoryError.                                    *)
PpuError(r) ==
    IF r.tag # "Err" THEN r
    ELSE [r EXCEPT !.err =
            CASE r.err = "UnmappedRead"  -> "PpuError(UnmappedRead)"
              [] r.err = "UnmappedWrite" -> "PpuError(UnmappedWrite)"
              [] r.err = "PaletteAccess" -> "PpuError(PaletteAccess)"
              [] OTHER                   -> "PpuError(OamAccess)"]

(* Lift a Ppu call's [ppu, res] to the Memory that owns the Ppu.            *)
WithPpu(m, call) == [m |-> [m EXCEPT !.ppu = call.ppu], res |-> PpuError(call.res)]

(* rom.prg_rom[(address - 0x8000) % len]: `% 0` panics on an empty image.   *)
PrgRead(address) ==
    IF rom.prg_len = 0 THEN Panic
    ELSE Ok(Rd(rom.prg_rom, (address - \h8000) % rom.prg_len))

pass_get(m, address) ==
    CASE address \in 0..\h1FFF ->
            [m |-> m, res |-> Ok(Rd(m.ram, address % \h800))]
      [] address = \h2002 -> WithPpu(m, read_status(m.ppu))
      [] address = \h2004 -> WithPpu(m, read_oam_data(m.ppu))
      [] address = \h2007 -> WithPpu(m, read_data(m.ppu))
      [] address = \h4015 -> [m |-> m, res |-> Ok(0)]
      [] address = \h4016 ->
            LET r == ControllerRead(m.controllers[1])
            IN  [m |-> [m EXCEPT !.controllers[1] = r.c], res |-> r.res]
      [] address = \h4017 ->
            LET r == ControllerRead(m.controllers[2])
            IN  [m |-> [m EXCEPT !.controllers[2] = r.c], res |-> r.res]
      [] address \in \h6000..\h7FFF ->
            [m |-> m, res |-> Ok(Rd(m.saved, address - \h6000))]
      [] address \in \h8000..\hFFFF -> [m |-> m, res |-> PrgRead(address)]
      [] OTHER -> [m |-> m, res |-> Err("UnmappedRead", address)]

(* get without its cycle.                                                   *)
get_uncounted(m, address) == pass_get(m, address)

get(m, address) == pass_get(cycle(m), address)

(* One iteration's outcome: r is what the get gave; one more cycle and the  *)
(* byte stored at index i.                                                  *)
OamDmaByte(r, i) ==
    IF ~IsOk(r.res) THEN [m |-> r.m, res |-> r.res, oam |-> Empty]
    ELSE [m |-> cycle(r.m), res |-> Ok(0), oam |-> (i :> r.res.value)]

(* The bytes of two consecutive runs of iterations.                         *)
OamDmaJoin(head, tail) ==
    [m |-> tail.m, res |-> tail.res, oam |-> head.oam @@ tail.oam]

(* Iterations from..to of oam_dma's loop, in order, starting in m: one get  *)
(* and one more cycle per byte; the first failing get ends the transfer     *)
(* with its error.  [m, res, oam], oam holding the bytes read.  The range   *)
(* is run as its first half followed by its second half.                    *)
RECURSIVE OamDmaLoop(_, _, _, _)
RECURSIVE OamDmaRest(_, _, _, _)
OamDmaLoop(m, base_address, from, to) ==
    IF from = to THEN OamDmaByte(get(m, base_address + from), from)
    ELSE OamDmaRest(OamDmaLoop(m, base_address, from, (from + to) \div 2),
                    base_address, (from + to) \div 2 + 1, to)

(* The iterations from..to after the run head, unless head ended the loop.  *)
OamDmaRest(head, base_address, from, to) ==
    IF ~IsOk(head.res) THEN head
    ELSE OamDmaJoin(head, OamDmaLoop(head.m, base_address, from, to))

(* After the loop: replace_oam and the wait cycle.                          *)
OamDmaDone(loop) ==
    IF ~IsOk(loop.res) THEN [m |-> loop.m, res |-> loop.res]
    ELSE [ m   |-> cycle([loop.m EXCEPT !.ppu = replace_oam(@, loop.oam)]),
           res |-> Ok(0) ]

oam_dma(m, page) == OamDmaDone(OamDmaLoop(m, Shl(page, 8), 0, 255))

pass_set(m, address, value) ==
    CASE address \in 0..\h1FFF ->
            [m |-> [m EXCEPT !.ram = Wr(@, address % \h800, value)], res |-> Ok(0)]
      [] address = \h2000 -> WithPpu(m, write_ctrl(m.ppu, value))
      [] address = \h2001 -> WithPpu(m, write_mask(m.ppu, value))
      [] address = \h2003 -> WithPpu(m, write_oam_address(m.ppu, value))
      [] address = \h2004 -> WithPpu(m, write_oam_data(m.ppu, value))
      [] address = \h2005 -> WithPpu(m, write_scroll(m.ppu, value))
      [] address = \h2006 -> WithPpu(m, write_address(m.ppu, value))
      [] address = \h2007 -> WithPpu(m, write_data(m.ppu, value))
      [] address \in \h4000..\h4013 -> [m |-> m, res |-> Ok(0)]
      [] address = \h4014 -> oam_dma(m, value)
      [] address = \h4015 -> [m |-> m, res |-> Ok(0)]
      [] address = \h4016 -> [m |-> m, res |-> Ok(0)]
      [] address = \h4017 -> [m |-> m, res |-> Ok(0)]
      [] address \in \h6000..\h7FFF ->
            [m |-> [m EXCEPT !.saved = Wr(@, address - \h6000, value)], res |-> Ok(0)]
      [] OTHER -> [m |-> m, res |-> Err("UnmappedWrite", address)]

set(m, address, value) == pass_set(cycle(m), address, value)

get_short(m, address) ==
    With(get(m, address), LAMBDA low :
    IF ~IsOk(low.res) THEN low
    ELSE With(get(low.m, U16(address + 1)), LAMBDA high :
         IF ~IsOk(high.res) THEN high
         ELSE [m |-> high.m, res |-> Ok(Or(Shl(high.res.value, 8), low.res.value))]))

----------------------------------------------------------------------------
(* src/src/cpu.rs: construction.                                            *)

CARRY    == 1
ZERO     == 2
INTERUPT == 4
DECIMAL  == 8
BREAK    == 16
ENABLED_BIT == 32   \* StatusRegister::ENABLED (ENABLED is a TLA+ keyword)
OVERFLOW == 64
NEGATIVE == 128

NewRegisters(pc) ==
    [pc |-> pc, a |-> 0, x |-> 0, y |-> 0, p |-> Or(ENABLED_BIT, INTERUPT), sp |-> \hFD]

(* One vector of Vectors::new: get_short(address).unwrap_or(DEFAULT).       *)
VectorRead(m, address) ==
    LET DEFAULT == \h8000
    IN  With(get_short(m, address), LAMBDA r :
        IF r.res.tag = "Err" THEN [m |-> r.m, res |-> Ok(DEFAULT)] ELSE r)

(* Cpu::new(rom, pc, controllers), pc = -1 standing for None:               *)
(* [registers, vectors, memory, res].                                       *)
NewCpu(pc, controllers) ==
    With(VectorRead(cycle(NewMemory(controllers)), \hFFFA), LAMBDA nmi :
    With(VectorRead(nmi.m, \hFFFC), LAMBDA rst :
    With(VectorRead(rst.m, \hFFFE), LAMBDA irq :
    [ vectors   |-> [ nmi       |-> nmi.res.value,
                      reset     |-> rst.res.value,
                      interrupt |-> irq.res.value ],
      registers |-> NewRegisters(IF pc < 0 THEN rst.res.value ELSE pc),
      memory    |-> irq.m,
      res       |-> IF IsOk(nmi.res) /\ IsOk(rst.res) /\ IsOk(irq.res)
                    THEN Ok(0) ELSE Panic ])))

----------------------------------------------------------------------------
(* src/src/interpreter.rs: the helpers of impl Cpu.  c is the Cpu struct    *)
(* [registers, memory]; each fallible operation gives [c, res], c being the *)
(* Cpu at the point the operation returned.                                 *)

STACK_START == 256

Ret(c, res) == [c |-> c, res |-> res]

Done(c) == [c |-> c, res |-> Ok(0)]

(* From<MemoryError> for CpuError.                                          *)
FromMemoryError(res) ==
    IF res.tag # "Err" THEN res ELSE [res EXCEPT !.err = "Memory(" \o res.err \o ")"]

(* self.memory.<call>(..): r is the [m, res] the Memory call gave.           *)
OnMemory(c, r) == Ret([c EXCEPT !.memory = r.m], r.res)

memory_get(c, address) == OnMemory(c, get(c.memory, address))

memory_set(c, address, value) == OnMemory(c, set(c.memory, address, value))

memory_cycle(c) == [c EXCEPT !.memory = cycle(@)]

memory_cycle_many(c, times) == [c EXCEPT !.memory = cycle_many(@, times)]

(* `a + b` on a u8: -1 for the panic of a build with overflow checks.       *)
AddU8(a, b) ==
    IF a + b <= \hFF THEN a + b
    ELSE IF build.overflow_checks THEN -1
    ELSE U8(a + b)

(* (address as u8).checked_add(offset).is_none()                            *)
CrossesPage(address, offset) == And(address, \hFF) + offset > \hFF

(* A fallible call gives r = [c, res].  `r?` inside a helper hands a failed *)
(* r back; the operators below that take an r are the code after such a    *)
(* `?`, applied to what the call before it gave.                            *)

(* Ok((high << 8) | low) of two reads made one after the other.             *)
Short(low, high) ==
    IF ~IsOk(low.res) THEN low
    ELSE IF ~IsOk(high.res) THEN high
    ELSE Ret(high.c, Ok(Or(Shl(high.res.value, 8), low.res.value)))

get_ptr(c, offset) ==
    LET low == memory_get(c, offset)
    IN  Short(low, memory_get(low.c, U8(offset + 1)))

(* get_ptr_a reading the high byte at address + 1.                          *)
get_ptr_a_next_byte(c, address) ==
    LET low == memory_get(c, address)
    IN  Short(low, memory_get(low.c, U16(address + 1)))

get_ptr_a(c, address) ==
    LET second == Or(And(address, \hFF00), U8(And(address, \hFF) + 1))
        low    == memory_get(c, address)
    IN  Short(low, memory_get(low.c, second))

get_zp(c, offset) == memory_get(c, offset)

get_zpo(c, offset, register) ==
    memory_get(memory_cycle(c), U8(offset + register))

get_a(c, address) == memory_get(c, address)

get_ao(c, address, offset) ==
    memory_get(IF CrossesPage(address, offset) THEN memory_cycle(c) ELSE c,
               U16(address + offset))

(* After `let pointer = self.get_ptr(..)?` in the four indirect helpers:    *)
(* the cycle, which _di always takes and _do takes when pointer + register  *)
(* crosses a page.                                                          *)
PointerCycle(pointer, register, always) ==
    IF ~IsOk(pointer.res) THEN pointer
    ELSE Ret(IF always \/ CrossesPage(pointer.res.value, register)
             THEN memory_cycle(pointer.c) ELSE pointer.c,
             pointer.res)

(* self.memory.get(pointer.wrapping_add(register))                          *)
GetAt(pointer, register) ==
    IF ~IsOk(pointer.res) THEN pointer
    ELSE memory_get(pointer.c, U16(pointer.res.value + register))

(* self.memory.set(pointer + register, value): pointer + (register as u16)  *)
(* is a checked u16 addition.                                               *)
SetAt(pointer, register, value) ==
    IF ~IsOk(pointer.res) THEN pointer
    ELSE IF AddU16(pointer.res.value, register) < 0 THEN Ret(pointer.c, Panic)
    ELSE memory_set(pointer.c, AddU16(pointer.res.value, register), value)

get_di(c, offset, register) ==
    GetAt(PointerCycle(get_ptr(c, U8(offset + register)), 0, TRUE), 0)

get_do(c, offset, register) ==
    GetAt(PointerCycle(get_ptr(c, offset), register, FALSE), register)

set_zp(c, offset, value) == memory_set(c, offset, value)

set_zpo(c, offset, register, value) ==
    memory_set(c, U8(offset + register), value)

set_a(c, address, value) == memory_set(c, address, value)

set_ao(c, address, offset, value) ==
    memory_set(c, U16(address + offset), value)

set_di(c, offset, register, value) ==
    SetAt(PointerCycle(get_ptr(c, U8(offset + register)), 0, TRUE), 0, value)

set_do(c, offset, register, value) ==
    SetAt(PointerCycle(get_ptr(c, offset), register, FALSE), register, value)

(* Pushed with the stack pointer moved down by two.                         *)
pushed_sp_down_two(r) ==
    IF ~IsOk(r.res) THEN r ELSE Done([r.c EXCEPT !.registers.sp = U8(@ + 254)])

(* sp = sp.wrapping_sub(1) after the set of push.                           *)
Pushed(r) ==
    IF ~IsOk(r.res) THEN r ELSE Done([r.c EXCEPT !.registers.sp = U8(@ + 255)])

push(c, value) == Pushed(memory_set(c, STACK_START + c.registers.sp, value))

(* self.push(value) after a push that gave r.                               *)
ThenPush(r, value) == IF ~IsOk(r.res) THEN r ELSE push(r.c, value)

(* push_address pushing the low byte first.                                 *)
push_address_low_first(c, address) ==
    ThenPush(push(c, And(address, \hFF)), Shr(address, 8))

push_address(c, address) ==
    ThenPush(push(c, Shr(address, 8)), And(address, \hFF))

pop(c) ==
    memory_get([c EXCEPT !.registers.sp = U8(@ + 1)],
               STACK_START + U8(c.registers.sp + 1))

pop_address(c) ==
    LET low == pop(c)
    IN  Short(low, pop(low.c))

(* The status byte php and interrupt push: p | ENABLED | BREAK.             *)
PushedStatus(p) == Or(Or(p, ENABLED_BIT), BREAK)

(* self.push(status.bits()) of interrupt, after push_address gave r.        *)
ThenPushStatus(r) ==
    IF ~IsOk(r.res) THEN r ELSE push(r.c, PushedStatus(r.c.registers.p))

(* self.registers.pc = pc, after the calls before it gave r.                *)
ThenJump(r, pc) ==
    IF ~IsOk(r.res) THEN r ELSE Done([r.c EXCEPT !.registers.pc = pc])

interrupt(c, pc) ==
    ThenJump(ThenPushStatus(push_address(c, c.registers.pc)), pc)

(* StatusRegister (bitflags): set, contains.                                *)
FlagSet(p, flag, value) == IF value THEN Or(p, flag) ELSE And(p, Not8(flag))

Contains(p, flag) == And(p, flag) = flag

set_flags(c, value) ==
    [c EXCEPT !.registers.p =
        FlagSet(FlagSet(@, ZERO, value = 0), NEGATIVE, And(value, \b10000000) # 0)]

(* `v as i8` and i8::checked_add(..).is_none().                             *)
AsI8(v) == IF v >= 128 THEN v - 256 ELSE v

OverflowsI8(n) == n < -128 \/ n > 127

(* [c, res]: res is Ok(result).                                             *)
add(c, a, b) ==
    LET carry_in      == Contains(c.registers.p, CARRY)
        result0       == U8(a + b)
        has_carry0    == a + b > \hFF
        has_overflow0 == OverflowsI8(AsI8(a) + AsI8(b))
        has_carry     == IF carry_in THEN has_carry0 \/ result0 + 1 > \hFF
                         ELSE has_carry0
        has_overflow  == IF carry_in
                         THEN has_overflow0 \/ OverflowsI8(AsI8(result0) + 1)
                         ELSE has_overflow0
        result        == IF carry_in THEN U8(result0 + 1) ELSE result0
        c1            == set_flags(c, result)
    IN  Ret([c1 EXCEPT !.registers.p =
                FlagSet(FlagSet(@, CARRY, has_carry), OVERFLOW, has_overflow)],
            Ok(result))

sub(c, a, b) == add(c, a, Not8(b))

cmp(c, a, b) ==
    LET result == U8(a - b + 256)
        c1     == set_flags(c, result)
    IN  [c1 EXCEPT !.registers.p = FlagSet(@, CARRY, a >= b)]

(* The four shifts: flags, then one cycle; [c, res] with res Ok(result).    *)
asl(c, value) ==
    LET result == U8(Shl(value, 1))
        c1     == set_flags(c, result)
    IN  Ret(memory_cycle([c1 EXCEPT !.registers.p =
                            FlagSet(@, CARRY, And(value, \b10000000) # 0)]),
            Ok(result))

lsr(c, value) ==
    LET result == Shr(value, 1)
        c1     == set_flags(c, result)
    IN  Ret(memory_cycle([c1 EXCEPT !.registers.p =
                            FlagSet(@, CARRY, And(value, \b00000001) # 0)]),
            Ok(result))

rol(c, value) ==
    LET carry  == IF Contains(c.registers.p, CARRY) THEN \b00000001 ELSE 0
        result == Or(U8(Shl(value, 1)), carry)
        c1     == set_flags(c, result)
    IN  Ret(memory_cycle([c1 EXCEPT !.registers.p =
                            FlagSet(@, CARRY, And(value, \b10000000) # 0)]),
            Ok(result))

ror(c, value) ==
    LET carry  == IF Contains(c.registers.p, CARRY) THEN \b10000000 ELSE 0
        result == Or(Shr(value, 1), carry)
        c1     == set_flags(c, result)
    IN  Ret(memory_cycle([c1 EXCEPT !.registers.p =
                            FlagSet(@, CARRY, And(value, \b00000001) # 0)]),
            Ok(result))

(* pc = (pc as i16).wrapping_add((rel as i8) as i16) as u16, one cycle, and *)
(* one more when the high byte of pc changed.                               *)
branch(c, rel) ==
    LET start == c.registers.pc
        pc    == (start + AsI8(rel) + 65536) % 65536
        c1    == [memory_cycle(c) EXCEPT !.registers.pc = pc]
    IN  IF And(start, \hFF00) # And(pc, \hFF00) THEN memory_cycle(c1) ELSE c1

----------------------------------------------------------------------------
(* src/src/interpreter.rs: impl Decoder for Cpu, the handlers.  A handler   *)
(* family NAME(c, mode, x) is the handlers name_<mode> of the source, mode  *)
(* being the postfix (g, i, z, zx, zy, a, ax, ay, dx, dy, ad) and x the     *)
(* operand the decoder fetched.                                             *)

(* The handlers below are written as the calls they make; an operator that *)
(* takes r = [c, res] is the code of a handler after a `?`, applied to     *)
(* what the helper before it gave.                                          *)

(* The end of a handler: `?` with the MemoryError converted, then           *)
(* cycle_many(times) and Ok(()).                                            *)
Finish(r, times) ==
    IF ~IsOk(r.res) THEN Ret(r.c, FromMemoryError(r.res))
    ELSE Done(memory_cycle_many(r.c, times))

(* The index register of a postfix.                                         *)
Index(c, mode) ==
    IF mode \in {"zx", "ax", "dx"} THEN c.registers.x ELSE c.registers.y

(* The operand read a handler with a given postfix makes.                   *)
Read(c, mode, x) ==
    CASE mode = "i"  -> Ret(c, Ok(x))
      [] mode = "z"  -> get_zp(c, x)
      [] mode \in {"zx", "zy"} -> get_zpo(c, x, Index(c, mode))
      [] mode = "a"  -> get_a(c, x)
      [] mode \in {"ax", "ay"} -> get_ao(c, x, Index(c, mode))
      [] mode = "dx" -> get_di(c, x, c.registers.x)
      [] mode = "dy" -> get_do(c, x, c.registers.y)

(* The operand write a handler with a given postfix makes.                  *)
Write(c, mode, x, value) ==
    CASE mode = "z"  -> set_zp(c, x, value)
      [] mode \in {"zx", "zy"} -> set_zpo(c, x, Index(c, mode), value)
      [] mode = "a"  -> set_a(c, x, value)
      [] mode \in {"ax", "ay"} -> set_ao(c, x, Index(c, mode), value)
      [] mode = "dx" -> set_di(c, x, c.registers.x, value)
      [] mode = "dy" -> set_do(c, x, c.registers.y, value)

BRK(c) == Ret(c, Err("Break", 0))

STP(c) == Ret(c, Err("Stop", 0))

NOP(c, mode, x) ==
    CASE mode = "g"  -> Done(memory_cycle(c))
      [] mode = "i"  -> Done(c)
      [] mode = "z"  -> Done(memory_cycle(c))
      [] mode = "zx" -> Done(memory_cycle_many(c, 2))
      [] mode = "a"  -> Done(memory_cycle(c))
      [] mode = "ax" ->
            Done(memory_cycle_many(c, IF CrossesPage(x, c.registers.x) THEN 2 ELSE 1))

(* dex, dey, iny, inx                                                       *)
StepRegister(c, name) ==
    LET c1 == CASE name = "dex" -> [c EXCEPT !.registers.x = U8(@ + 255)]
                [] name = "dey" -> [c EXCEPT !.registers.y = U8(@ + 255)]
                [] name = "iny" -> [c EXCEPT !.registers.y = U8(@ + 1)]
                [] name = "inx" -> [c EXCEPT !.registers.x = U8(@ + 1)]
        value == IF name \in {"dex", "inx"} THEN c1.registers.x ELSE c1.registers.y
    IN  Done(memory_cycle(set_flags(c1, value)))

(* The second half of inc_* / dec_*: set_flags(value), the cycles, and the  *)
(* write of value = old.wrapping_add(delta).                                *)
StepWrite(r, delta, address, times) ==
    IF ~IsOk(r.res) THEN r
    ELSE memory_set(memory_cycle_many(set_flags(r.c, U8(r.res.value + delta)), times),
                    address, U8(r.res.value + delta))

(* The address of inc_* / dec_*: that of _zx is (offset + x) as u16, a      *)
(* checked u8 addition.                                                     *)
StepAddress(c, mode, x) ==
    CASE mode = "z"  -> x
      [] mode = "zx" -> AddU8(x, c.registers.x)
      [] mode = "a"  -> x
      [] mode = "ax" -> U16(x + c.registers.x)

(* inc_z, inc_zx, inc_a, inc_ax (delta 1) and dec_* (delta 255).            *)
StepMemory(c, delta, mode, x) ==
    IF StepAddress(c, mode, x) < 0 THEN Ret(c, Panic)
    ELSE Finish(StepWrite(memory_get(c, StepAddress(c, mode, x)), delta,
                          StepAddress(c, mode, x),
                          IF mode \in {"zx", "ax"} THEN 2 ELSE 1),
                0)

PHP(c) == Finish(push(c, PushedStatus(c.registers.p)), 1)

(* The pulled byte taken as the status without change.                     *)
pulled_status_raw(value) == value

(* from_bits_retain(value).union(ENABLED).difference(BREAK)                 *)
PulledStatus(value) == And(Or(value, ENABLED_BIT), Not8(BREAK))

(* self.registers.p = ..(self.pop()?)..                                     *)
Pulled(r) ==
    IF ~IsOk(r.res) THEN r
    ELSE Ret([r.c EXCEPT !.registers.p = PulledStatus(r.res.value)], r.res)

PLP(c) == Finish(Pulled(pop(c)), 2)

PHA(c) == Finish(push(c, c.registers.a), 1)

(* register = value; set_flags(value), for the value r holds.               *)
Loaded(r, register) ==
    IF ~IsOk(r.res) THEN r
    ELSE Ret(set_flags([r.c EXCEPT !.registers[register] = r.res.value], r.res.value),
             r.res)

PLA(c) == Finish(Loaded(pop(c), "a"), 2)

(* The flags of bit_z / bit_a for the value r holds.                        *)
Tested(r) ==
    IF ~IsOk(r.res) THEN r
    ELSE Ret([r.c EXCEPT !.registers.p =
                FlagSet(FlagSet(FlagSet(@, ZERO, And(r.c.registers.a, r.res.value) = 0),
                                NEGATIVE, And(r.res.value, \b10000000) # 0),
                        OVERFLOW, And(r.res.value, \b01000000) # 0)],
             r.res)

BIT(c, mode, x) == Finish(Tested(Read(c, mode, x)), 0)

(* tay, tya, txa, txs, tax, tsx: txs sets no flags.                         *)
Transfer(c, name) ==
    LET c1 == CASE name = "tay" -> [c EXCEPT !.registers.y = c.registers.a]
                [] name = "tya" -> [c EXCEPT !.registers.a = c.registers.y]
                [] name = "txa" -> [c EXCEPT !.registers.a = c.registers.x]
                [] name = "txs" -> [c EXCEPT !.registers.sp = c.registers.x]
                [] name = "tax" -> [c EXCEPT !.registers.x = c.registers.a]
                [] name = "tsx" -> [c EXCEPT !.registers.x = c.registers.sp]
        value == CASE name = "tay" -> c1.registers.y
                   [] name \in {"tya", "txa"} -> c1.registers.a
                   [] OTHER -> c1.registers.x
    IN  Done(memory_cycle(IF name = "txs" THEN c1 ELSE set_flags(c1, value)))

(* clc, sec, cli, sei, clv, cld, sed                                        *)
SetFlag(c, name) ==
    LET p == c.registers.p
        q == CASE name = "clc" -> FlagSet(p, CARRY, FALSE)
               [] name = "sec" -> FlagSet(p, CARRY, TRUE)
               [] name = "cli" -> FlagSet(p, INTERUPT, FALSE)
               [] name = "sei" -> FlagSet(p, INTERUPT, TRUE)
               [] name = "clv" -> FlagSet(p, OVERFLOW, FALSE)
               [] name = "cld" -> FlagSet(p, DECIMAL, FALSE)
               [] name = "sed" -> FlagSet(p, DECIMAL, TRUE)
    IN  Done(memory_cycle([c EXCEPT !.registers.p = q]))

(* self.registers.pc = <the address r holds> + offset, a checked u16        *)
(* addition.                                                                *)
JumpTo(r, offset) ==
    IF ~IsOk(r.res) THEN r
    ELSE IF AddU16(r.res.value, offset) < 0 THEN Ret(r.c, Panic)
    ELSE Done([r.c EXCEPT !.registers.pc = AddU16(r.res.value, offset)])

JMP(c, mode, x) ==
    IF mode = "a" THEN Done([c EXCEPT !.registers.pc = x])
    ELSE Finish(JumpTo(get_ptr_a(c, x), 0), 0)

(* push_address(pc - 1): a checked u16 subtraction.                         *)
JSR(c, x) ==
    IF SubU16(c.registers.pc, 1) < 0 THEN Ret(c, Panic)
    ELSE Finish(ThenJump(push_address(c, SubU16(c.registers.pc, 1)), x), 1)

(* self.pop_address() of rti, after the status was pulled.                  *)
ThenPopAddress(r) == IF ~IsOk(r.res) THEN r ELSE pop_address(r.c)

RTI(c) == Finish(JumpTo(ThenPopAddress(Pulled(pop(c))), 0), 2)

(* pop_address()? + 1: a checked u16 addition.                              *)
RTS(c) == Finish(JumpTo(pop_address(c), 1), 3)

(* bpl, bmi, bvc, bvs, bcc, bcs, bne, beq                                   *)
BranchIf(c, name, rel) ==
    LET p     == c.registers.p
        taken == CASE name = "bpl" -> ~Contains(p, NEGATIVE)
                   [] name = "bmi" -> Contains(p, NEGATIVE)
                   [] name = "bvc" -> ~Contains(p, OVERFLOW)
                   [] name = "bvs" -> Contains(p, OVERFLOW)
                   [] name = "bcc" -> ~Contains(p, CARRY)
                   [] name = "bcs" -> Contains(p, CARRY)
                   [] name = "bne" -> ~Contains(p, ZERO)
                   [] name = "beq" -> Contains(p, ZERO)
    IN  Done(IF taken THEN branch(c, rel) ELSE c)

(* self.cmp(register, value) for the value r holds.                         *)
Compared(r, register) ==
    IF ~IsOk(r.res) THEN r
    ELSE Ret(cmp(r.c, r.c.registers[register], r.res.value), r.res)

(* cmp_*, cpx_*, cpy_*: register is "a", "x" or "y".                        *)
Compare(c, register, mode, x) == Finish(Compared(Read(c, mode, x), register), 0)

(* lda_*, ldx_*, ldy_*                                                      *)
Load(c, register, mode, x) == Finish(Loaded(Read(c, mode, x), register), 0)

(* a |= value, a &= value or a ^= value.                                    *)
Combine(name, a, value) ==
    CASE name = "ora" -> Or(a, value)
      [] name = "and" -> And(a, value)
      [] name = "eor" -> Xor(a, value)

(* ora_*, and_*, eor_*                                                      *)
(* The new value of a, for the operand r holds.                             *)
Combined(r, name) ==
    IF ~IsOk(r.res) THEN r
    ELSE Ret(r.c, Ok(Combine(name, r.c.registers.a, r.res.value)))

(* ora_*, and_*, eor_*                                                      *)
Logic(c, name, mode, x) ==
    Finish(Loaded(Combined(Read(c, mode, x), name), "a"), 0)

(* self.registers.a = <the result r holds>                                  *)
Accumulate(r) ==
    IF ~IsOk(r.res) THEN r
    ELSE Ret([r.c EXCEPT !.registers.a = r.res.value], r.res)

(* self.add(self.registers.a, value) for the value r holds.                 *)
Added(r) ==
    IF ~IsOk(r.res) THEN r ELSE add(r.c, r.c.registers.a, r.res.value)

(* self.sub(self.registers.a, value) for the value r holds.                 *)
Subtracted(r) ==
    IF ~IsOk(r.res) THEN r ELSE sub(r.c, r.c.registers.a, r.res.value)

ADC(c, mode, x) == Finish(Accumulate(Added(Read(c, mode, x))), 0)

SBC(c, mode, x) == Finish(Accumulate(Subtracted(Read(c, mode, x))), 0)

(* sta_*, stx_*, sty_*: the handlers with an indexed postfix other than _dx *)
(* add a cycle after the write.                                             *)
Store(c, register, mode, x) ==
    Finish(Write(c, mode, x, c.registers[register]),
           IF mode \in {"zx", "zy", "ax", "ay", "dy"} THEN 1 ELSE 0)

(* asl_*, rol_*, ror_*, lsr_*: _g works on a; the others read, shift (one   *)
(* cycle), write, and _ax adds a cycle after the write.                     *)
Shifted(c, name, value) ==
    CASE name = "asl" -> asl(c, value)
      [] name = "rol" -> rol(c, value)
      [] name = "ror" -> ror(c, value)
      [] name = "lsr" -> lsr(c, value)

(* The shift of the operand r holds.                                        *)
ShiftedRead(r, name) ==
    IF ~IsOk(r.res) THEN r ELSE Shifted(r.c, name, r.res.value)

(* The write of the shifted value r holds.                                  *)
ShiftWrite(r, mode, x) ==
    IF ~IsOk(r.res) THEN r ELSE Write(r.c, mode, x, r.res.value)

Shift(c, name, mode, x) ==
    IF mode = "g" THEN Finish(Accumulate(Shifted(c, name, c.registers.a)), 0)
    ELSE Finish(ShiftWrite(ShiftedRead(Read(c, mode, x), name), mode, x),
                IF mode = "ax" THEN 1 ELSE 0)

----------------------------------------------------------------------------
(* src/src/decoder.rs: Decoder::decode, and Cpu::step.                      *)

(* The match of decode: for opcode op, entry op + 1 is the handler (its     *)
(* name and postfix) and the number of operand bytes fetched, or an empty  *)
(* name where decode returns None.                                          *)
OPCODES ==
    <<
       <<"brk", "", 0>>, <<"ora", "dx", 1>>, <<"stp", "", 0>>, <<"", "", 0>>,
       <<"nop", "z", 1>>, <<"ora", "z", 1>>, <<"asl", "z", 1>>, <<"", "", 0>>,
       <<"php", "", 0>>, <<"ora", "i", 1>>, <<"asl", "g", 0>>, <<"", "", 0>>,
       <<"nop", "a", 2>>, <<"ora", "a", 2>>, <<"asl", "a", 2>>, <<"", "", 0>>,
       <<"bpl", "", 1>>, <<"ora", "dy", 1>>, <<"stp", "", 0>>, <<"", "", 0>>,
       <<"nop", "zx", 1>>, <<"ora", "zx", 1>>, <<"asl", "zx", 1>>, <<"", "", 0>>,
       <<"clc", "", 0>>, <<"ora", "ay", 2>>, <<"nop", "g", 0>>, <<"", "", 0>>,
       <<"nop", "ax", 2>>, <<"ora", "ax", 2>>, <<"asl", "ax", 2>>, <<"", "", 0>>,
       <<"jsr", "", 2>>, <<"and", "dx", 1>>, <<"stp", "", 0>>, <<"", "", 0>>,
       <<"bit", "z", 1>>, <<"and", "z", 1>>, <<"rol", "z", 1>>, <<"", "", 0>>,
       <<"plp", "", 0>>, <<"and", "i", 1>>, <<"rol", "g", 0>>, <<"", "", 0>>,
       <<"bit", "a", 2>>, <<"and", "a", 2>>, <<"rol", "a", 2>>, <<"", "", 0>>,
       <<"bmi", "", 1>>, <<"and", "dy", 1>>, <<"stp", "", 0>>, <<"", "", 0>>,
       <<"nop", "zx", 1>>, <<"and", "zx", 1>>, <<"rol", "zx", 1>>, <<"", "", 0>>,
       <<"sec", "", 0>>, <<"and", "ay", 2>>, <<"nop", "g", 0>>, <<"", "", 0>>,
       <<"nop", "ax", 2>>, <<"and", "ax", 2>>, <<"rol", "ax", 2>>, <<"", "", 0>>,
       <<"rti", "", 0>>, <<"eor", "dx", 1>>, <<"stp", "", 0>>, <<"", "", 0>>,
       <<"nop", "z", 1>>, <<"eor", "z", 1>>, <<"lsr", "z", 1>>, <<"", "", 0>>,
       <<"pha", "", 0>>, <<"eor", "i", 1>>, <<"lsr", "g", 0>>, <<"", "", 0>>,
       <<"jmp", "a", 2>>, <<"eor", "a", 2>>, <<"lsr", "a", 2>>, <<"", "", 0>>,
       <<"bvc", "", 1>>, <<"eor", "dy", 1>>, <<"stp", "", 0>>, <<"", "", 0>>,
       <<"nop", "zx", 1>>, <<"eor", "zx", 1>>, <<"lsr", "zx", 1>>, <<"", "", 0>>,
       <<"cli", "", 0>>, <<"eor", "ay", 2>>, <<"nop", "g", 0>>, <<"", "", 0>>,
       <<"nop", "ax", 2>>, <<"eor", "ax", 2>>, <<"lsr", "ax", 2>>, <<"", "", 0>>,
       <<"rts", "", 0>>, <<"adc", "dx", 1>>, <<"stp", "", 0>>, <<"", "", 0>>,
       <<"nop", "z", 1>>, <<"adc", "z", 1>>, <<"ror", "z", 1>>, <<"", "", 0>>,
       <<"pla", "", 0>>, <<"adc", "i", 1>>, <<"ror", "g", 0>>, <<"", "", 0>>,
       <<"jmp", "ad", 2>>, <<"adc", "a", 2>>, <<"ror", "a", 2>>, <<"", "", 0>>,
       <<"bvs", "", 1>>, <<"adc", "dy", 1>>, <<"stp", "", 0>>, <<"", "", 0>>,
       <<"nop", "zx", 1>>, <<"adc", "zx", 1>>, <<"ror", "zx", 1>>, <<"", "", 0>>,
       <<"sei", "", 0>>, <<"adc", "ay", 2>>, <<"nop", "g", 0>>, <<"", "", 0>>,
       <<"nop", "ax", 2>>, <<"adc", "ax", 2>>, <<"ror", "ax", 2>>, <<"", "", 0>>,
       <<"nop", "i", 1>>, <<"sta", "dx", 1>>, <<"nop", "i", 1>>, <<"", "", 0>>,
       <<"sty", "z", 1>>, <<"sta", "z", 1>>, <<"stx", "z", 1>>, <<"", "", 0>>,
       <<"dey", "", 0>>, <<"nop", "i", 1>>, <<"txa", "", 0>>, <<"", "", 0>>,
       <<"sty", "a", 2>>, <<"sta", "a", 2>>, <<"stx", "a", 2>>, <<"", "", 0>>,
       <<"bcc", "", 1>>, <<"sta", "dy", 1>>, <<"stp", "", 0>>, <<"", "", 0>>,
       <<"sty", "zx", 1>>, <<"sta", "zx", 1>>, <<"stx", "zy", 1>>, <<"", "", 0>>,
       <<"tya", "", 0>>, <<"sta", "ay", 2>>, <<"txs", "", 0>>, <<"", "", 0>>,
       <<"", "", 0>>, <<"sta", "ax", 2>>, <<"", "", 0>>, <<"", "", 0>>,
       <<"ldy", "i", 1>>, <<"lda", "dx", 1>>, <<"ldx", "i", 1>>, <<"", "", 0>>,
       <<"ldy", "z", 1>>, <<"lda", "z", 1>>, <<"ldx", "z", 1>>, <<"", "", 0>>,
       <<"tay", "", 0>>, <<"lda", "i", 1>>, <<"tax", "", 0>>, <<"", "", 0>>,
       <<"ldy", "a", 2>>, <<"lda", "a", 2>>, <<"ldx", "a", 2>>, <<"", "", 0>>,
       <<"bcs", "", 1>>, <<"lda", "dy", 1>>, <<"stp", "", 0>>, <<"", "", 0>>,
       <<"ldy", "zx", 1>>, <<"lda", "zx", 1>>, <<"ldx", "zy", 1>>, <<"", "", 0>>,
       <<"clv", "", 0>>, <<"lda", "ay", 2>>, <<"tsx", "", 0>>, <<"", "", 0>>,
       <<"ldy", "ax", 2>>, <<"lda", "ax", 2>>, <<"ldx", "ay", 2>>, <<"", "", 0>>,
       <<"cpy", "i", 1>>, <<"cmp", "dx", 1>>, <<"nop", "i", 1>>, <<"", "", 0>>,
       <<"cpy", "z", 1>>, <<"cmp", "z", 1>>, <<"dec", "z", 1>>, <<"", "", 0>>,
       <<"iny", "", 0>>, <<"cmp", "i", 1>>, <<"dex", "", 0>>, <<"", "", 0>>,
       <<"cpy", "a", 2>>, <<"cmp", "a", 2>>, <<"dec", "a", 2>>, <<"", "", 0>>,
       <<"bne", "", 1>>, <<"cmp", "dy", 1>>, <<"stp", "", 0>>, <<"", "", 0>>,
       <<"nop", "zx", 1>>, <<"cmp", "zx", 1>>, <<"dec", "zx", 1>>, <<"", "", 0>>,
       <<"cld", "", 0>>, <<"cmp", "ay", 2>>, <<"nop", "g", 0>>, <<"", "", 0>>,
       <<"nop", "ax", 2>>, <<"cmp", "ax", 2>>, <<"dec", "ax", 2>>, <<"", "", 0>>,
       <<"cpx", "i", 1>>, <<"sbc", "dx", 1>>, <<"nop", "i", 1>>, <<"", "", 0>>,
       <<"cpx", "z", 1>>, <<"sbc", "z", 1>>, <<"inc", "z", 1>>, <<"", "", 0>>,
       <<"inx", "", 0>>, <<"sbc", "i", 1>>, <<"nop", "g", 0>>, <<"sbc", "i", 1>>,
       <<"cpx", "a", 2>>, <<"sbc", "a", 2>>, <<"inc", "a", 2>>, <<"", "", 0>>,
       <<"beq", "", 1>>, <<"sbc", "dy", 1>>, <<"stp", "", 0>>, <<"", "", 0>>,
       <<"nop", "zx", 1>>, <<"sbc", "zx", 1>>, <<"inc", "zx", 1>>, <<"", "", 0>>,
       <<"sed", "", 0>>, <<"sbc", "ay", 2>>, <<"nop", "g", 0>>, <<"", "", 0>>,
       <<"nop", "ax", 2>>, <<"sbc", "ax", 2>>, <<"inc", "ax", 2>>, <<"", "", 0>>
    >>

(* The register in the name of a handler: cmp, lda and sta work on a.       *)
Register(name) ==
    CASE name \in {"cmp", "lda", "sta"} -> "a"
      [] name \in {"cpx", "ldx", "stx"} -> "x"
      [] name \in {"cpy", "ldy", "sty"} -> "y"

(* The handler call of a decode arm.                                        *)
Execute(c, name, mode, x) ==
    CASE name = "brk" -> BRK(c)
      [] name = "stp" -> STP(c)
      [] name = "nop" -> NOP(c, mode, x)
      [] name \in {"dex", "dey", "iny", "inx"} -> StepRegister(c, name)
      [] name = "inc" -> StepMemory(c, 1, mode, x)
      [] name = "dec" -> StepMemory(c, 255, mode, x)
      [] name = "php" -> PHP(c)
      [] name = "plp" -> PLP(c)
      [] name = "pha" -> PHA(c)
      [] name = "pla" -> PLA(c)
      [] name = "bit" -> BIT(c, mode, x)
      [] name \in {"tay", "tya", "txa", "txs", "tax", "tsx"} -> Transfer(c, name)
      [] name \in {"clc", "sec", "cli", "sei", "clv", "cld", "sed"} -> SetFlag(c, name)
      [] name = "jmp" -> JMP(c, mode, x)
      [] name = "jsr" -> JSR(c, x)
      [] name = "rti" -> RTI(c)
      [] name = "rts" -> RTS(c)
      [] name \in {"bpl", "bmi", "bvc", "bvs", "bcc", "bcs", "bne", "beq"} ->
            BranchIf(c, name, x)
      [] name \in {"cmp", "cpx", "cpy"} -> Compare(c, Register(name), mode, x)
      [] name \in {"lda", "ldx", "ldy"} -> Load(c, Register(name), mode, x)
      [] name \in {"ora", "and", "eor"} -> Logic(c, name, mode, x)
      [] name = "adc" -> ADC(c, mode, x)
      [] name = "sbc" -> SBC(c, mode, x)
      [] name \in {"sta", "stx", "sty"} -> Store(c, Register(name), mode, x)
      [] name \in {"asl", "rol", "ror", "lsr"} -> Shift(c, name, mode, x)

(* Option::None of decode and of the `next` closure.                        *)
None == [tag |-> "None", value |-> 0, err |-> "", at |-> 0]

(* Result::ok() of a get, after pc became the incremented pc (-1 where the  *)
(* checked u16 addition panicked).                                          *)
ok(r, pc) ==
    IF r.res.tag = "Panic" \/ pc < 0 THEN Ret(r.c, Panic)
    ELSE Ret([r.c EXCEPT !.registers.pc = pc],
             IF IsOk(r.res) THEN r.res ELSE None)

(* The closure `next` of step: get(pc), then pc += 1 whatever the get gave, *)
(* then value.ok().                                                         *)
next(c) == ok(memory_get(c, c.registers.pc), AddU16(c.registers.pc, 1))

(* get_address: two `next()?`, None when either gave None.                  *)
get_address(c) ==
    LET low == next(c)
    IN  Short(low, next(low.c))

(* The operand a decode arm fetches before it calls its handler: nothing,   *)
(* next()? or get_address(&mut next)?.                                      *)
Operand(c, size) ==
    CASE size = 0 -> Ret(c, Ok(0))
      [] size = 1 -> next(c)
      [] size = 2 -> get_address(c)

(* Some(handler(operand)) of a decode arm, for the operand r holds.         *)
Executed(r, entry) ==
    IF ~IsOk(r.res) THEN r ELSE Execute(r.c, entry[1], entry[2], r.res.value)

(* The match of decode on the opcode r holds: `_ => return None`.           *)
Match(r) ==
    IF ~IsOk(r.res) THEN r
    ELSE IF OPCODES[r.res.value + 1][1] = "" THEN Ret(r.c, None)
    ELSE Executed(Operand(r.c, OPCODES[r.res.value + 1][3]), OPCODES[r.res.value + 1])

decode(c) == Match(next(c))

(* The match on self.memory.get(pc) in the closure of unwrap_or_else.       *)
InvalidOp(r) ==
    IF IsOk(r.res) THEN Ret(r.c, Err("InvalidOp", r.res.value))
    ELSE Ret(r.c, FromMemoryError(r.res))

(* Option::unwrap_or_else on what decode gave: the closure reads at pc, the *)
(* pc step saved before decode.                                             *)
unwrap_or_else(result, pc) ==
    IF result.res.tag # "None" THEN result
    ELSE InvalidOp(memory_get(result.c, pc))

step(c) == unwrap_or_else(decode(c), c.registers.pc)

----------------------------------------------------------------------------
(* src/src/software.rs: SoftwareRenderer.                                   *)

NES_WIDTH == 256

NES_HEIGHT == 240

NES_SCANLINE_WIDTH == 341

NES_SCANLINE_COUNT == 262

(* NES_PALETTE[i] is NES_PALETTE[i + 1] here.                               *)
NES_PALETTE ==
    <<
      <<98, 98, 98, 255>>, <<0, 31, 177, 255>>, <<35, 3, 199, 255>>,
      <<81, 0, 177, 255>>, <<115, 0, 117, 255>>, <<127, 0, 35, 255>>,
      <<115, 10, 0, 255>>, <<81, 39, 0, 255>>, <<35, 67, 0, 255>>,
      <<0, 86, 0, 255>>, <<0, 92, 0, 255>>, <<0, 82, 35, 255>>,
      <<0, 60, 117, 255>>, <<0, 0, 0, 255>>, <<0, 0, 0, 255>>,
      <<0, 0, 0, 255>>, <<170, 170, 170, 255>>, <<13, 86, 255, 255>>,
      <<74, 47, 255, 255>>, <<138, 18, 255, 255>>, <<188, 8, 213, 255>>,
      <<210, 17, 104, 255>>, <<199, 45, 0, 255>>, <<157, 84, 0, 255>>,
      <<96, 123, 0, 255>>, <<32, 151, 0, 255>>, <<0, 162, 0, 255>>,
      <<0, 152, 66, 255>>, <<0, 124, 180, 255>>, <<0, 0, 0, 255>>,
      <<0, 0, 0, 255>>, <<0, 0, 0, 255>>, <<255, 255, 255, 255>>,
      <<82, 174, 255, 255>>, <<143, 133, 255, 255>>, <<210, 101, 255, 255>>,
      <<255, 86, 255, 255>>, <<255, 93, 206, 255>>, <<255, 119, 86, 255>>,
      <<249, 158, 0, 255>>, <<188, 199, 0, 255>>, <<121, 231, 0, 255>>,
      <<66, 246, 17, 255>>, <<38, 239, 125, 255>>, <<44, 213, 245, 255>>,
      <<77, 77, 77, 255>>, <<0, 0, 0, 255>>, <<0, 0, 0, 255>>,
      <<255, 255, 255, 255>>, <<182, 225, 255, 255>>, <<205, 208, 255, 255>>,
      <<232, 195, 255, 255>>, <<255, 187, 255, 255>>, <<255, 188, 243, 255>>,
      <<255, 198, 195, 255>>, <<255, 213, 153, 255>>, <<232, 230, 129, 255>>,
      <<205, 243, 129, 255>>, <<182, 250, 153, 255>>, <<168, 249, 195, 255>>,
      <<168, 240, 243, 255>>, <<183, 183, 183, 255>>, <<0, 0, 0, 255>>,
      <<0, 0, 0, 255>>
    >>

(* NES_PALETTE[color_index as usize]: the table has 64 colours, the index   *)
(* is any u8, so an index past the end panics.                              *)
PaletteColor(color_index) ==
    IF color_index < Len(NES_PALETTE) THEN Ok(NES_PALETTE[color_index + 1])
    ELSE Panic

SendNMI == [tag |-> "SendNMI", value |-> 0, err |-> "", at |-> 0]

(* The frame is [u8; 256 * 240 * 4]; it is held here at the pixels          *)
(* x + y * NES_WIDTH of Tracked, four bytes each, and so are the two arrays *)
(* of a PreRenderedScanline; of the foreground array the columns that are   *)
(* Some are held as well, in opaque.                                        *)
Tracked ==
    {0, 2 + 1 * NES_WIDTH, 6 + 1 * NES_WIDTH, 255 + 239 * NES_WIDTH}

TrackedColumns(y) == {p % NES_WIDTH : p \in {q \in Tracked : q \div NES_WIDTH = y}}

DefaultRenderedFrame == [p \in Tracked |-> <<255, 255, 255, 255>>]

DefaultPreRenderedScanline(y) ==
    [ background |-> [x \in TrackedColumns(y) |-> None],
      foreground |-> [x \in TrackedColumns(y) |-> None],
      opaque     |-> {} ]

(* SoftwareRenderer::new; pushed holds the frames given to push_frame.      *)
NewRenderer ==
    [ scan_x |-> 0, scan_y |-> 0,
      last_cycle |-> 0,
      pre_rendered_sprites |-> None,
      frame |-> DefaultRenderedFrame,
      pushed |-> <<>> ]

(* RenderRegister's accessors, which the renderer reads as scroll.x,        *)
(* scroll.y and the two base name table bits.                               *)
x_scroll(render) == Or(Shl(And(render.t, \b0000000000011111), 3), render.x)

y_scroll(render) ==
    Or(Shr(And(render.t, \b0000001111100000), 2),
       Shr(And(render.t, \b0111000000000000), 12))

name_table_x(render) == And(render.t, \b0000010000000000) # 0

name_table_y(render) == And(render.t, \b0000100000000000) # 0

(* Some(colour) as Ok(colour), None, or Panic for an index past chr_rom or  *)
(* past NES_PALETTE.                                                        *)
SpriteColor(plane_0, plane_1, x, palette) ==
    LET mask  == Shl(1, 7 - x)
        index == (IF And(plane_0.value, mask) # 0 THEN 1 ELSE 0)
                 + (IF And(plane_1.value, mask) # 0 THEN 2 ELSE 0)
    IN  IF ~IsOk(plane_0) \/ ~IsOk(plane_1) THEN Panic
        ELSE IF index = 0 THEN None
        ELSE PaletteColor(palette[index - 1])

render_sprite(sprite, x, y, palette) ==
    SpriteColor(ChrRead(sprite * 8 * 2 + y), ChrRead(sprite * 8 * 2 + y + 8),
                x, palette)

render_background(ppu, table, x, y) ==
    LET col == x \div 8
        row == y \div 8
        sprite == Rd(ppu.memory.names[table], col + row * 32)
        attribute_address == \h3C0 + (col \div 4) + (row \div 4) * 8
        attribute_byte == Rd(ppu.memory.names[table], attribute_address)
        attribute_shift == ((col \div 2) % 2) * 2 + ((row \div 2) % 2) * 4
        palette_index == And(Shr(attribute_byte, attribute_shift), \b11)
    IN  render_sprite(sprite + 256, x % 8, y % 8,
                      ppu.memory.palette.background[palette_index])

(* The body of `for offset_x in 0 .. sprite_width` for sprite i on line y,  *)
(* from offset_x on.  s is [ppu, result, panic].                            *)
RECURSIVE SpriteRow(_, _, _, _, _)
SpriteRow(s, i, sprite, y, offset_x) ==
    LET write_x == sprite.x + offset_x
        flip_x  == And(sprite.mask, \b01000000) # 0
        flip_y  == And(sprite.mask, \b10000000) # 0
        offset_y == y - (sprite.y + 1)
        color == render_sprite(sprite.number,
                     IF flip_x THEN 8 - 1 - offset_x ELSE offset_x,
                     IF flip_y THEN 8 - 1 - offset_y ELSE offset_y,
                     s.ppu.memory.palette.sprite[And(sprite.mask, \b11)])
        behind_background == And(sprite.mask, \b00100000) # 0
        hit == IF i = 0
               THEN [s EXCEPT !.ppu.registers.status.sprite_hit = TRUE]
               ELSE s
        shown ==
            IF behind_background THEN hit
            ELSE [hit EXCEPT !.result.opaque = @ \cup {write_x}]
        written ==
            IF write_x \notin DOMAIN s.result.background THEN shown
            ELSE IF behind_background
            THEN [shown EXCEPT !.result.background[write_x] = color]
            ELSE [shown EXCEPT !.result.foreground[write_x] = color]
    IN  IF s.panic \/ offset_x >= 8 \/ write_x >= NES_WIDTH THEN s
        ELSE IF color.tag = "Panic" THEN [s EXCEPT !.panic = TRUE]
        ELSE SpriteRow(IF IsOk(color) THEN written ELSE s,
                       i, sprite, y, offset_x + 1)

(* The body of `for i in (0 .. 64).rev()`: sprites off line y are skipped.  *)
SpriteOnLine(s, i, sprite, y) ==
    IF ~(sprite.y + 1 <= y /\ y < sprite.y + 1 + 8) THEN s
    ELSE SpriteRow(s, i, sprite, y, 0)

(* The loop over the sprites from index i down to 0.  A sprite the map does *)
(* not hold is Sprite::default(), whose line 256 no scanline reaches.       *)
RECURSIVE Sprites(_, _, _)
Sprites(s, i, y) ==
    IF i < 0 \/ s.panic THEN s
    ELSE Sprites(IF i \in DOMAIN s.ppu.memory.oam
                 THEN SpriteOnLine(s, i, s.ppu.memory.oam[i], y)
                 ELSE s,
                 i - 1, y)

(* [ppu, result, panic]: the scanline of sprites for line y and the Ppu     *)
(* with the sprite hit it raised.                                           *)
pre_render_sprites(ppu, y) ==
    Sprites([ppu |-> ppu, result |-> DefaultPreRenderedScanline(y),
             panic |-> FALSE],
            SPRITE_COUNT - 1, y)

(* The background part of render_pixel, at the scrolled position.  An       *)
(* offset_y of 240..255 makes `offset_y -= 256` overflow: a build with      *)
(* overflow checks panics there, any other build wraps and panics on the    *)
(* name table index that follows.                                           *)
BackgroundPixel(pre, ppu, x, offset_x, offset_y, name_table) ==
    LET table_x == IF offset_x >= 256 THEN ~name_table ELSE name_table
        table   == IF offset_y >= 240 THEN ~table_x ELSE table_x
        color   == render_background(ppu, IF table THEN 1 ELSE 0,
                       IF offset_x >= 256 THEN offset_x - 256 ELSE offset_x,
                       IF offset_y >= 240 THEN offset_y - 256 ELSE offset_y)
        behind  == IF pre.tag = "None" THEN None ELSE pre.value.background[x]
    IN  IF offset_y >= 240 /\ offset_y < 256 THEN Panic
        ELSE IF color.tag # "None" THEN color
        ELSE IF behind.tag # "None" THEN behind
        ELSE PaletteColor(ppu.memory.palette.background_solid)

(* render_pixel for a pixel the frame does not hold: whether it panics on   *)
(* the scrolled line.                                                       *)
ScrollPanics(r, ppu, x, y) ==
    /\ y + y_scroll(ppu.registers.render) >= 240
    /\ y + y_scroll(ppu.registers.render) < 256
    /\ \/ r.pre_rendered_sprites.tag = "None"
       \/ x \notin r.pre_rendered_sprites.value.opaque

(* Ok(colour) or Panic, for a pixel (x, y) the frame holds.                 *)
render_pixel(r, ppu, x, y) ==
    LET pre == r.pre_rendered_sprites
        foreground_pixel ==
            IF pre.tag = "None" THEN None ELSE pre.value.foreground[x]
    IN  IF foreground_pixel.tag # "None" THEN foreground_pixel
        ELSE BackgroundPixel(pre, ppu, x,
                 x + x_scroll(ppu.registers.render),
                 y + y_scroll(ppu.registers.render),
                 name_table_x(ppu.registers.render)
                     # name_table_y(ppu.registers.render))

(* One pass of the loop of render is Dot(d), for d the state the loop       *)
(* works on: [renderer, ppu, has_v_blank, panic].                           *)
PreRendered(d, s) ==
    IF s.panic THEN [d EXCEPT !.panic = TRUE]
    ELSE [d EXCEPT !.renderer.pre_rendered_sprites = Ok(s.result),
                   !.ppu = s.ppu]

Painted(d, p, pixel) ==
    IF ~IsOk(pixel) THEN [d EXCEPT !.panic = TRUE]
    ELSE [d EXCEPT !.renderer.frame[p] = pixel.value]

Visible(d, x, y) ==
    IF x = 0 THEN PreRendered(d, pre_render_sprites(d.ppu, y))
    ELSE IF x > 256 THEN d
    ELSE IF (x - 1) + y * NES_WIDTH \in Tracked
    THEN Painted(d, (x - 1) + y * NES_WIDTH,
                 render_pixel(d.renderer, d.ppu, x - 1, y))
    ELSE IF ScrollPanics(d.renderer, d.ppu, x - 1, y)
    THEN [d EXCEPT !.panic = TRUE]
    ELSE d

Visit(d, x, y) ==
    IF y <= 239 THEN Visible(d, x, y)
    ELSE IF y = 241 THEN (IF x = 1 THEN [d EXCEPT !.has_v_blank = TRUE] ELSE d)
    ELSE IF y = 261
    THEN (IF x = 1
          THEN [d EXCEPT !.ppu.registers.status.sprite_hit = FALSE] ELSE d)
    ELSE d

Carry(d) ==
    IF d.renderer.scan_x + 1 < NES_SCANLINE_WIDTH
    THEN [d EXCEPT !.renderer.scan_x = @ + 1]
    ELSE IF d.renderer.scan_y + 1 < NES_SCANLINE_COUNT
    THEN [d EXCEPT !.renderer.scan_x = 0, !.renderer.scan_y = @ + 1]
    ELSE [d EXCEPT !.renderer.scan_x = 0, !.renderer.scan_y = 0]

Dot(d) ==
    IF d.panic THEN d
    ELSE Carry(Visit(d, d.renderer.scan_x, d.renderer.scan_y))

(* `for _ in 0 .. diff`: diff passes, taken as two halves so that the       *)
(* evaluation stays shallow; a panic ends the loop.                         *)
RECURSIVE Dots(_, _)
Dots(d, diff) ==
    IF d.panic \/ diff = 0 THEN d
    ELSE IF diff = 1 THEN Dot(d)
    ELSE Dots(Dots(d, diff \div 2), diff - diff \div 2)

(* render without the test of has_v_blank.                                  *)
rendered_on_nmi_alone(d) ==
    IF d.ppu.registers.control.gen_nmi
    THEN [ renderer |-> [d.renderer EXCEPT
                            !.pushed = Append(@, d.renderer.frame),
                            !.frame = DefaultRenderedFrame],
           ppu |-> d.ppu, res |-> SendNMI ]
    ELSE [renderer |-> d.renderer, ppu |-> d.ppu, res |-> None]

(* render with the frame handed over as a copy and kept.                    *)
rendered_keeping_frame(d) ==
    IF d.panic
    THEN [renderer |-> d.renderer, ppu |-> d.ppu, res |-> Panic]
    ELSE IF d.has_v_blank /\ d.ppu.registers.control.gen_nmi
    THEN [ renderer |-> [d.renderer EXCEPT
                            !.pushed = Append(@, d.renderer.frame)],
           ppu |-> d.ppu, res |-> SendNMI ]
    ELSE [renderer |-> d.renderer, ppu |-> d.ppu, res |-> None]

(* What render does once the loop is over.                                  *)
Rendered(d) ==
    IF d.panic
    THEN [renderer |-> d.renderer, ppu |-> d.ppu, res |-> Panic]
    ELSE IF d.has_v_blank /\ d.ppu.registers.control.gen_nmi
    THEN [ renderer |-> [d.renderer EXCEPT
                            !.pushed = Append(@, d.renderer.frame),
                            !.frame = DefaultRenderedFrame],
           ppu |-> d.ppu, res |-> SendNMI ]
    ELSE [renderer |-> d.renderer, ppu |-> d.ppu, res |-> None]

(* render with a dot count that also grows with the calls hist holds.       *)
render_by_calls(r, ppu, now) ==
    Rendered(Dots([ renderer |-> [r EXCEPT !.last_cycle = now], ppu |-> ppu,
                    has_v_blank |-> FALSE, panic |-> FALSE ],
                  (now - r.last_cycle) * 3 + Len(hist)))

(* [renderer, ppu, res]: render(ppu, cycle) for a cycle, now, that is not   *)
(* below last_cycle.                                                        *)
render(r, ppu, now) ==
    Rendered(Dots([ renderer |-> [r EXCEPT !.last_cycle = now], ppu |-> ppu,
                    has_v_blank |-> FALSE, panic |-> FALSE ],
                  (now - r.last_cycle) * 3))

----------------------------------------------------------------------------
(* src/emhardware/src/renderer.rs: HardwareRenderer, the scan counter and   *)
(* the flags of its render.  Of the GPU side the model keeps the per-line   *)
(* scroll table of the background and the number of frames drawn.           *)

NewHardwareRenderer ==
    [ last_cycle |-> 0, scan_x |-> 0, scan_y |-> 0,
      offset_details |-> Empty, contents |-> 0 ]

(* BackgroundRenderer::write_offset                                         *)
write_offset(h, scanline, offset, base) ==
    IF scanline < 240
    THEN [h EXCEPT !.offset_details =
                      Wr(Wr(@, scanline * 2, offset),
                         scanline * 2 + 1, IF base THEN 1 ELSE 0)]
    ELSE h

(* `while self.scan_x >= NES_SCANLINE_WIDTH`: one line per pass, the line   *)
(* count wrapped, and the scroll of the line written to the table.          *)
RECURSIVE Lines(_, _)
Lines(h, ppu) ==
    IF h.scan_x < NES_SCANLINE_WIDTH THEN h
    ELSE Lines(write_offset([h EXCEPT !.scan_x = @ - NES_SCANLINE_WIDTH,
                                      !.scan_y = (@ + 1) % NES_SCANLINE_COUNT],
                            (h.scan_y + 1) % NES_SCANLINE_COUNT,
                            x_scroll(ppu.registers.render),
                            name_table_x(ppu.registers.render)),
               ppu)

(* The macro passed!(line, col) for a renderer h that started the call at   *)
(* (start_x, start_y).                                                      *)
passed(h, start_x, start_y, line, col) ==
    /\ h.scan_y > line \/ (h.scan_y = line /\ h.scan_x >= col)
    /\ start_y < line \/ (start_y = line /\ start_x < col)

(* The three tests of passed! and the return of render, for the renderer h  *)
(* the loop left.  [renderer, ppu, res, cleared]: cleared says that the     *)
(* call took the arm that clears sprite_hit.                                *)
HardwareFlags(h, ppu, start_x, start_y) ==
    LET zero    == OamRd(ppu.memory.oam, 0)
        hit     == passed(h, start_x, start_y, zero.y + 5, zero.x)
        cleared == passed(h, start_x, start_y, 261, 1)
        flagged == [ppu EXCEPT !.registers.status.sprite_hit =
                                   IF cleared THEN FALSE
                                   ELSE IF hit THEN TRUE ELSE @]
    IN  IF passed(h, start_x, start_y, 241, 1) /\ ppu.registers.control.gen_nmi
        THEN [ renderer |-> [h EXCEPT !.contents = @ + 1], ppu |-> flagged,
               res |-> SendNMI, cleared |-> cleared ]
        ELSE [renderer |-> h, ppu |-> flagged, res |-> None, cleared |-> cleared]

(* HardwareRenderer::render(ppu, cycle) for a cycle, now, that is not below *)
(* last_cycle.                                                              *)
hardware_render(h, ppu, now) ==
    HardwareFlags(Lines([h EXCEPT !.last_cycle = now,
                                  !.scan_x = @ + (now - h.last_cycle) * 3],
                        ppu),
                  ppu, h.scan_x, h.scan_y)

----------------------------------------------------------------------------
(* src/src/state.rs: CpuState, the snapshot of a Cpu, and its restore.  A   *)
(* Vec is held with its length.  The snapshot has no cycle count and no     *)
(* cartridge RAM; its controller_cycles copies a field the Memory of these  *)
(* sources does not have and is left out.                                   *)

RAM_SIZE == 2048

NAME_TABLE_SIZE == 1024

PpuStateMemoryFrom(mem) ==
    [ oam     |-> [len |-> SPRITE_COUNT, contents |-> mem.oam],
      names   |-> [page \in 0..3 |->
                      [len |-> NAME_TABLE_SIZE, contents |-> mem.names[page]]],
      names_len |-> 4,
      palette |-> mem.palette ]

(* From<&Cpu> for CpuState                                                  *)
CpuStateFrom(c) ==
    [ ram       |-> [len |-> RAM_SIZE, contents |-> c.memory.ram],
      registers |-> c.registers,
      ppu       |-> [ registers |-> c.memory.ppu.registers,
                      memory    |-> PpuStateMemoryFrom(c.memory.ppu.memory) ] ]

(* PpuStateMemory::restore: None when a Vec has not the length of its array *)
PpuStateMemoryRestore(mem) ==
    IF \/ mem.oam.len # SPRITE_COUNT
       \/ \E page \in 0..3 :
              page < mem.names_len /\ mem.names[page].len # NAME_TABLE_SIZE
       \/ mem.names_len # 4
    THEN None
    ELSE Ok([ oam     |-> mem.oam.contents,
              names   |-> [page \in 0..3 |-> mem.names[page].contents],
              palette |-> mem.palette ])

(* The Memory restore builds before it reads the vectors.                   *)
RestoredMemory(state, ppu_memory, controllers) ==
    [ cycles      |-> 0,
      ram         |-> state.ram.contents,
      ppu         |-> [registers |-> state.ppu.registers, memory |-> ppu_memory],
      saved       |-> Empty,
      controllers |-> controllers ]

RestoredCpu(state, m) ==
    With(VectorRead(m, \hFFFA), LAMBDA nmi :
    With(VectorRead(nmi.m, \hFFFC), LAMBDA rst :
    With(VectorRead(rst.m, \hFFFE), LAMBDA irq :
    IF ~(IsOk(nmi.res) /\ IsOk(rst.res) /\ IsOk(irq.res)) THEN Panic
    ELSE Ok([ vectors   |-> [ nmi       |-> nmi.res.value,
                              reset     |-> rst.res.value,
                              interrupt |-> irq.res.value ],
              registers |-> state.registers,
              memory    |-> irq.m ]))))

(* CpuState::restore(rom, controllers): Some(cpu) as Ok(cpu), or None.      *)
restore(state, controllers) ==
    IF state.ram.len # RAM_SIZE THEN None
    ELSE IF ~IsOk(PpuStateMemoryRestore(state.ppu.memory)) THEN None
    ELSE RestoredCpu(state,
             RestoredMemory(state, PpuStateMemoryRestore(state.ppu.memory).value,
                            controllers))

----------------------------------------------------------------------------
(* src/emgui/src/main.rs: the loop of the emulation thread.  A run is the   *)
(* Cpu and the renderer of the thread, [registers, vectors, memory,         *)
(* renderer, panic]; panic is TRUE once an unwrap has panicked.             *)

(* cpu.interrupt(cpu.vectors.nmi).unwrap(), for the result i                *)
Delivered(run, i) ==
    IF ~IsOk(i.res) THEN [run EXCEPT !.panic = TRUE]
    ELSE [run EXCEPT !.registers = i.c.registers, !.memory = i.c.memory]

(* the match on what render gave                                            *)
Drawn(run, v) ==
    IF v.res.tag = "Panic" THEN [run EXCEPT !.panic = TRUE]
    ELSE IF v.res = SendNMI
    THEN Delivered([run EXCEPT !.renderer = v.renderer, !.memory.ppu = v.ppu],
                   interrupt([ registers |-> run.registers,
                               memory |-> [run.memory EXCEPT !.ppu = v.ppu] ],
                             run.vectors.nmi))
    ELSE [run EXCEPT !.renderer = v.renderer, !.memory.ppu = v.ppu]

(* cpu.step().unwrap(), for the result s, and the call of render            *)
Unwrapped(run, s) ==
    IF ~IsOk(s.res) THEN [run EXCEPT !.panic = TRUE]
    ELSE Drawn([run EXCEPT !.registers = s.c.registers, !.memory = s.c.memory],
               render(run.renderer, s.c.memory.ppu, s.c.memory.cycles))

(* One pass of the loop.                                                    *)
Pass(run) ==
    Unwrapped(run, step([registers |-> run.registers, memory |-> run.memory]))

----------------------------------------------------------------------------
(* src/emgui/src/main.rs: GuiController, an Arc<Mutex<GuiControllerState>>  *)
(* shared by the host thread, which calls set, and the emulation thread,    *)
(* which calls read.  Each thread is at a statement of its call or idle;    *)
(* locks counts the acquisitions of the call, seen is the state the call    *)
(* found when it got the lock.                                              *)

GuiControllerState == [clock |-> 0, flags |-> 0]

IdleThread ==
    [ at |-> "idle", flag |-> 0, value |-> FALSE, clock |-> 0, locks |-> 0,
      seen |-> GuiControllerState, result |-> 0 ]

(* GuiController::default(), cloned into the emulation thread.              *)
NewGui ==
    [ inner     |-> GuiControllerState,
      owner     |-> "none",
      host      |-> IdleThread,
      emulation |-> IdleThread,
      calls     |-> 0 ]

(* A lock that does not wait for the mutex to be free.                      *)
lock_without_waiting(g) == TRUE

(* self.inner.lock() returns once no thread holds the mutex; no thread      *)
(* panics while it holds it, so the unwrap of the result does not panic.    *)
CanLock(g) == g.owner = "none"

(* The lock taken by a thread, and the drop of the guard at the return.     *)
Locked(g, thread) == [g EXCEPT !.owner = thread]

Dropped(g, thread) ==
    IF g.owner = thread THEN [g EXCEPT !.owner = "none"] ELSE g

----------------------------------------------------------------------------
(* src/emserver/src/delimiter.rs: Delimiter.  size is -1 for None, buffer   *)
(* the sequence of bytes.                                                   *)

NewDelimiter == [size |-> -1, buffer |-> <<>>]

(* u64::from_be_bytes of the eight bytes at the head of buffer              *)
RECURSIVE FromBeBytes(_, _)
FromBeBytes(buffer, n) ==
    IF n = 0 THEN 0 ELSE FromBeBytes(buffer, n - 1) * 256 + buffer[n]

(* Byte k of len, counted from the lowest.                                  *)
RECURSIVE ByteOf(_, _)
ByteOf(len, k) == IF k = 0 THEN len % 256 ELSE ByteOf(len \div 256, k - 1)

(* (len as u64).to_be_bytes()                                               *)
ToBeBytes(len) == [i \in 1..8 |-> ByteOf(len, 8 - i)]

(* buffer.drain(0 .. n) is the first n bytes; what stays is the rest.       *)
Drained(buffer, n) == SubSeq(buffer, n + 1, Len(buffer))

delimiter_push(d, data) == [d EXCEPT !.buffer = @ \o data]

(* The first statement of pop: the header is taken once eight bytes are     *)
(* there and no size is held.                                               *)
Sized(d) ==
    IF d.size = -1 /\ Len(d.buffer) >= 8
    THEN [size |-> FromBeBytes(d.buffer, 8), buffer |-> Drained(d.buffer, 8)]
    ELSE d

(* The rest of pop with a payload taken only when the buffer holds more     *)
(* than its size.                                                           *)
taken_when_more(d) ==
    IF d.size = -1 THEN [d |-> d, res |-> None]
    ELSE IF Len(d.buffer) > d.size
    THEN [ d   |-> [size |-> -1, buffer |-> Drained(d.buffer, d.size)],
           res |-> Ok(SubSeq(d.buffer, 1, d.size)) ]
    ELSE [d |-> d, res |-> None]

(* The rest of pop, on the delimiter the first statement left.              *)
Taken(d) ==
    IF d.size = -1 THEN [d |-> d, res |-> None]
    ELSE IF Len(d.buffer) >= d.size
    THEN [ d   |-> [size |-> -1, buffer |-> Drained(d.buffer, d.size)],
           res |-> Ok(SubSeq(d.buffer, 1, d.size)) ]
    ELSE [d |-> d, res |-> None]

(* [d, res]: res is Ok(payload) for Some(payload).                          *)
delimiter_pop(d) == Taken(Sized(d))

(* send_message: the length as eight big-endian bytes, then the payload.    *)
send_message(data) == ToBeBytes(Len(data)) \o data

(* The connection as the model holds it: the Delimiter, the bytes sent but  *)
(* not yet read (wire), the payloads sent and those pop gave.               *)
(* src/emserver/src/server.rs: NesInstance and the requests nes_instance    *)
(* serves on it.  The Cpu and the renderer of the instance are the state    *)
(* of the model; its frame is kept with the connection.                     *)

(* One pass of `for (key, address) in requests` of get_values: the address  *)
(* cut to 16 bits, pass_get, and the value kept when the read gave one.     *)
ValueRead(g, request) ==
    IF g.panic THEN g
    ELSE LET r == pass_get(g.m, U16(request[2]))
         IN  IF r.res.tag = "Panic" THEN [g EXCEPT !.panic = TRUE]
             ELSE [ m      |-> r.m,
                    values |-> IF IsOk(r.res)
                               THEN (request[1] :> r.res.value) @@ g.values
                               ELSE g.values,
                    panic  |-> FALSE ]

(* NesInstance::get_values for the requests in the order the map yields     *)
(* them: [m, values, panic].                                                *)
RECURSIVE get_values(_, _)
get_values(g, requests) ==
    IF requests = <<>> THEN g
    ELSE get_values(ValueRead(g, Head(requests)), Tail(requests))

(* A pass of the loop of run_frames on the instance inst = [registers,      *)
(* vectors, memory, renderer, frame]: [inst, res, frames, panic], frames    *)
(* the frames the pass counted.  The renderer hands the frame over with its *)
(* SendNMI; the frame of the pass is the one it pushed last.                *)

(* The SendFrame arm with the count left as it was.                         *)
interrupted_uncounted(inst, i, frame) ==
    IF i.res.tag = "Panic"
    THEN [inst |-> inst, res |-> Panic, frames |-> 0, panic |-> TRUE]
    ELSE IF ~IsOk(i.res)
    THEN [ inst |-> [inst EXCEPT !.registers = i.c.registers,
                                 !.memory = i.c.memory],
           res |-> i.res, frames |-> 0, panic |-> FALSE ]
    ELSE [ inst |-> [inst EXCEPT !.registers = i.c.registers,
                                 !.memory = i.c.memory,
                                 !.frame = frame],
           res |-> Ok(0), frames |-> 0, panic |-> FALSE ]

(* cpu.interrupt(cpu.vectors.nmi)?, for the result i, and self.frame = frame *)
Interrupted(inst, i, frame) ==
    IF i.res.tag = "Panic"
    THEN [inst |-> inst, res |-> Panic, frames |-> 1, panic |-> TRUE]
    ELSE IF ~IsOk(i.res)
    THEN [ inst |-> [inst EXCEPT !.registers = i.c.registers,
                                 !.memory = i.c.memory],
           res |-> i.res, frames |-> 1, panic |-> FALSE ]
    ELSE [ inst |-> [inst EXCEPT !.registers = i.c.registers,
                                 !.memory = i.c.memory,
                                 !.frame = frame],
           res |-> Ok(0), frames |-> 1, panic |-> FALSE ]

(* the match on what render gave                                            *)
FrameMatched(inst, v) ==
    IF v.res.tag = "Panic"
    THEN [inst |-> inst, res |-> Panic, frames |-> 0, panic |-> TRUE]
    ELSE IF v.res = SendNMI
    THEN Interrupted([inst EXCEPT !.renderer = v.renderer, !.memory.ppu = v.ppu],
                     interrupt([ registers |-> inst.registers,
                                 memory |-> [inst.memory EXCEPT !.ppu = v.ppu] ],
                               inst.vectors.nmi),
                     v.renderer.pushed[Len(v.renderer.pushed)])
    ELSE [ inst |-> [inst EXCEPT !.renderer = v.renderer, !.memory.ppu = v.ppu],
           res |-> Ok(0), frames |-> 0, panic |-> FALSE ]

(* self.cpu.step()?, for the result s, and the call of render               *)
FrameStepped(inst, s) ==
    IF s.res.tag = "Panic"
    THEN [inst |-> inst, res |-> Panic, frames |-> 0, panic |-> TRUE]
    ELSE IF ~IsOk(s.res)
    THEN [ inst |-> [inst EXCEPT !.registers = s.c.registers,
                                 !.memory = s.c.memory],
           res |-> s.res, frames |-> 0, panic |-> FALSE ]
    ELSE FrameMatched([inst EXCEPT !.registers = s.c.registers,
                                   !.memory = s.c.memory],
                      render(inst.renderer, s.c.memory.ppu, s.c.memory.cycles))

FramePass(inst) ==
    FrameStepped(inst, step([registers |-> inst.registers, memory |-> inst.memory]))

(* The arm with the renderer replaced before the state is restored.         *)
set_state_renewing_first(inst, payload) ==
    IF ~IsOk(payload)
    THEN [inst |-> inst, parse_error |-> "postcard", panic |-> FALSE]
    ELSE LET r == restore(payload.value, <<GenericController, NoController>>)
         IN  IF r.tag = "Panic"
             THEN [inst |-> inst, parse_error |-> "", panic |-> TRUE]
             ELSE IF ~IsOk(r)
             THEN [ inst |-> [inst EXCEPT !.renderer = NewRenderer],
                    parse_error |-> "Failed to create CPU instance from state.",
                    panic |-> FALSE ]
             ELSE [ inst |-> [inst EXCEPT !.registers = r.value.registers,
                                          !.vectors = r.value.vectors,
                                          !.memory = r.value.memory,
                                          !.renderer = NewRenderer],
                    parse_error |-> "", panic |-> FALSE ]

(* The arm SetState of nes_instance for a payload that postcard decoded to  *)
(* Ok(state) or failed on: [inst, parse_error, panic], parse_error "" for   *)
(* None.                                                                    *)
set_state(inst, payload) ==
    IF ~IsOk(payload)
    THEN [inst |-> inst, parse_error |-> "postcard", panic |-> FALSE]
    ELSE LET r == restore(payload.value, <<GenericController, NoController>>)
         IN  IF r.tag = "Panic"
             THEN [inst |-> inst, parse_error |-> "", panic |-> TRUE]
             ELSE IF ~IsOk(r)
             THEN [ inst |-> inst,
                    parse_error |-> "Failed to create CPU instance from state.",
                    panic |-> FALSE ]
             ELSE [ inst |-> [inst EXCEPT !.registers = r.value.registers,
                                          !.vectors = r.value.vectors,
                                          !.memory = r.value.memory,
                                          !.renderer = NewRenderer],
                    parse_error |-> "", panic |-> FALSE ]

(* The connection as the model holds it: the Delimiter, the bytes sent but  *)
(* not yet read (wire), the payloads sent and those pop gave, the frame of  *)
(* the instance, the replies sent, whether the connection is open, and the  *)
(* call of run_frames that is under way.                                    *)
NewServer ==
    [ delimiter |-> NewDelimiter, wire |-> <<>>, sent |-> <<>>,
      popped |-> <<>>,
      frame |-> DefaultRenderedFrame, replies |-> <<>>, open |-> TRUE,
      run |-> [ active |-> FALSE, skip_frames |-> 0, frame_count |-> 0,
                passes |-> 0, requests |-> <<>> ] ]

----------------------------------------------------------------------------
(* The emulator's state and the calls a host makes on it.                   *)

Cpu == [registers |-> registers, memory |-> memory]

Last == hist[Len(hist)]

Prev == hist[Len(hist) - 1]

Called(h, call, addr) == h.call = call /\ h.addr = addr

(* How many calls a run makes.                                              *)
MaxOps == 4

PRG_SIZE == 16384

CHR_SIZE == 8192

Profiles == {[overflow_checks |-> TRUE], [overflow_checks |-> FALSE]}

(* An NROM image for the bus runs: sprite data at the head of the PRG bank  *)
(* ($8000), the three vectors at its end, a few CHR bytes.                  *)
BusRom(mirroring) ==
    [ flags   |-> [mirroring |-> mirroring],
      prg_len |-> PRG_SIZE,
      prg_rom |-> (0 :> \h30) @@ (1 :> \h02) @@ (2 :> \h01) @@ (3 :> \h90)
                  @@ (\h3FFA :> \h00) @@ (\h3FFB :> \h90)
                  @@ (\h3FFC :> \h00) @@ (\h3FFD :> \h80)
                  @@ (\h3FFE :> \h00) @@ (\h3FFF :> \hA0),
      chr_len |-> CHR_SIZE,
      chr_rom |-> (\h0000 :> \h3C) @@ (\h0808 :> \h5A) @@ (\h0809 :> \hA5)
                  @@ (\h0828 :> \h66) ]

InitBus ==
    /\ rom \in {BusRom(mirroring) : mirroring \in {"Horizontal", "Vertical"}}
    /\ build \in Profiles
    /\ \E cpu \in {NewCpu(-1, <<GenericController, NoController>>)} :
           /\ registers = cpu.registers
           /\ vectors = cpu.vectors
           /\ memory = cpu.memory
           /\ fault = ~IsOk(cpu.res)
    /\ hist = <<>>
    /\ renderer = NewRenderer
    /\ gui = NewGui
    /\ server = NewServer
    /\ peer = None

(* A call's outcome: the state is replaced unless the call panicked.        *)
Record(call, addr, value, r) ==
    /\ hist' = Append(hist, [ call |-> call, addr |-> addr, value |-> value,
                              res |-> r.res, pre |-> Cpu ])
    /\ fault' = (r.res.tag = "Panic")
    /\ memory' = IF r.res.tag = "Panic" THEN memory ELSE r.m

(* memory.get(address)                                                      *)
Get(address) ==
    /\ ~fault
    /\ Len(hist) < MaxOps
    /\ Record("get", address, 0, get(memory, address))
    /\ UNCHANGED <<rom, build, registers, vectors, renderer, peer, gui, server>>

(* memory.set(address, value)                                               *)
Set(address, value) ==
    /\ ~fault
    /\ Len(hist) < MaxOps
    /\ Record("set", address, value, set(memory, address, value))
    /\ UNCHANGED <<rom, build, registers, vectors, renderer, peer, gui, server>>

(* The PPU ports $2000-$2007.                                               *)
RegReads == {\h2002, \h2004, \h2007}

RegWrites ==
    ({\h2000} \X {\h87}) \cup
    ({\h2001} \X {\h1E}) \cup
    ({\h2003} \X {\h05}) \cup
    ({\h2004} \X {\h21}) \cup
    ({\h2005} \X {\hFF}) \cup
    ({\h2006} \X {\h08, \h21, \hFF}) \cup
    ({\h2007} \X {\h21})

NextRegs ==
    \/ \E address \in RegReads : Get(address)
    \/ \E w \in RegWrites : Set(w[1], w[2])

SpecRegs == InitBus /\ [][NextRegs]_vars

(* The CPU bus beyond the eight ports: RAM, the addresses $2008-$3FFF and   *)
(* OAM DMA from a RAM page, a ROM page and an unmapped page.                *)
BusReads == {\h2002, \h200A, \h3FFF}

BusWrites ==
    ({\h0200} \X {\h20}) \cup
    ({\h200E} \X {\h21}) \cup
    ({\h4014} \X {\h02, \h20, \h80})

NextBus ==
    \/ \E address \in BusReads : Get(address)
    \/ \E w \in BusWrites : Set(w[1], w[2])

SpecBus == InitBus /\ [][NextBus]_vars

(* The counted and the uncounted accessors side by side: a host or a        *)
(* disassembler calls pass_get and pass_set on the same Memory.             *)
MaxAccesses == 3

(* memory.pass_get(address)                                                 *)
PassGet(address) ==
    /\ ~fault
    /\ Len(hist) < MaxAccesses
    /\ Record("pass_get", address, 0, pass_get(memory, address))
    /\ UNCHANGED <<rom, build, registers, vectors, renderer, peer, gui, server>>

(* memory.pass_set(address, value)                                          *)
PassSet(address, value) ==
    /\ ~fault
    /\ Len(hist) < MaxAccesses
    /\ Record("pass_set", address, value, pass_set(memory, address, value))
    /\ UNCHANGED <<rom, build, registers, vectors, renderer, peer, gui, server>>

PassReads == {\h2007, \h200A}

PassWrites ==
    ({\h2006} \X {\h21}) \cup
    ({\h200E} \X {\h21}) \cup
    ({\h4014} \X {\h02})

NextPass ==
    \/ \E address \in PassReads : Len(hist) < MaxAccesses /\ Get(address)
    \/ \E w \in PassWrites : Len(hist) < MaxAccesses /\ Set(w[1], w[2])
    \/ \E address \in PassReads : PassGet(address)
    \/ \E w \in PassWrites : PassSet(w[1], w[2])

SpecPass == InitBus /\ [][NextPass]_vars

(* The controllers: the emulation reads $4016 and $4017 and writes the      *)
(* strobe to $4016; the host presses and releases buttons of controller 1   *)
(* between accesses.                                                        *)
MaxReads == 9

MaxPresses == 2

PadReads == {i \in 1..Len(hist) : Called(hist[i], "get", \h4016)}

PadOthers == {i \in 1..Len(hist) : ~Called(hist[i], "get", \h4016)}

InitPad ==
    /\ InitBus
    /\ rom.flags.mirroring = "Horizontal"
    /\ build.overflow_checks

(* memory.get(0x4016)                                                       *)
ReadPad ==
    /\ ~fault
    /\ Cardinality(PadReads) < MaxReads
    /\ Record("get", \h4016, 0, get(memory, \h4016))
    /\ UNCHANGED <<rom, build, registers, vectors, renderer, peer, gui, server>>

(* memory.get(0x4017)                                                       *)
ReadSecondPad ==
    /\ ~fault
    /\ Cardinality(PadOthers) < MaxPresses
    /\ Record("get", \h4017, 0, get(memory, \h4017))
    /\ UNCHANGED <<rom, build, registers, vectors, renderer, peer, gui, server>>

(* memory.set(0x4016, value)                                                *)
Strobe(value) ==
    /\ ~fault
    /\ Cardinality(PadOthers) < MaxPresses
    /\ Record("set", \h4016, value, set(memory, \h4016, value))
    /\ UNCHANGED <<rom, build, registers, vectors, renderer, peer, gui, server>>

(* memory.controllers.0.press(flags)                                        *)
Press(flags) ==
    /\ ~fault
    /\ Cardinality(PadOthers) < MaxPresses
    /\ Record("press", 0, flags,
              [ m   |-> [memory EXCEPT !.controllers[1] = press(@, flags)],
                res |-> Ok(0) ])
    /\ UNCHANGED <<rom, build, registers, vectors, renderer, peer, gui, server>>

(* memory.controllers.0.set(flag, value)                                    *)
SetButton(flag, value) ==
    /\ ~fault
    /\ Cardinality(PadOthers) < MaxPresses
    /\ Record("controller_set", flag, IF value THEN 1 ELSE 0,
              [ m   |-> [memory EXCEPT !.controllers[1] =
                                          controller_set(@, flag, value)],
                res |-> Ok(0) ])
    /\ UNCHANGED <<rom, build, registers, vectors, renderer, peer, gui, server>>

NextPad ==
    \/ ReadPad
    \/ ReadSecondPad
    \/ Strobe(1)
    \/ Press(\hA5)
    \/ \E b \in {<<\h02, TRUE>>, <<\h01, FALSE>>} : SetButton(b[1], b[2])

SpecPad == InitPad /\ [][NextPad]_vars

----------------------------------------------------------------------------
(* Runs of Cpu::step over small programs.  A program sets up a pointer at   *)
(* $10, the index registers, the carry and the accumulator, and then has    *)
(* one instruction under test: any opcode with operand bytes b1, b2.        *)

(* How many steps a run makes.                                              *)
MaxSteps == 9

(* The bytes of an operand, the index values, the accumulator values.       *)
OperandBytes == {\h10, \h80, \hF0}

IndexValues == {\h01, \h20}

AccumulatorValues == {\h00, \h80}

(* pc of the instruction under test: the set-up is 15 bytes, 8 steps.       *)
TestPc == \h800F

(*  LDA #$F0  STA $10  LDA #$02  STA $11   ; ($10) = $02F0                  *)
(*  LDX #index  LDY #index  SEC|CLC  LDA #a                                 *)
(*  op b1 $02                                                               *)
Program(op, b1, index, carry, a) ==
    << \hA9, \hF0, \h85, \h10, \hA9, \h02, \h85, \h11,
       \hA2, index, \hA0, index, IF carry THEN \h38 ELSE \h18, \hA9, a,
       op, b1, \h02 >>

CpuRom(program) ==
    [ flags   |-> [mirroring |-> "Horizontal"],
      prg_len |-> PRG_SIZE,
      prg_rom |-> [i \in 0..(Len(program) - 1) |-> program[i + 1]]
                  @@ (\h3FFC :> \h00) @@ (\h3FFD :> \h80),
      chr_len |-> CHR_SIZE,
      chr_rom |-> Empty ]

InitCpu ==
    /\ rom \in { CpuRom(Program(op, b1, index, carry, a)) :
                    op \in 0..255, b1 \in OperandBytes, index \in IndexValues,
                    carry \in BOOLEAN, a \in AccumulatorValues }
    /\ build \in Profiles
    /\ \E cpu \in {NewCpu(-1, <<GenericController, NoController>>)} :
           /\ registers = cpu.registers
           /\ vectors = cpu.vectors
           /\ memory = cpu.memory
           /\ fault = ~IsOk(cpu.res)
    /\ hist = <<>>
    /\ renderer = NewRenderer
    /\ gui = NewGui
    /\ server = NewServer
    /\ peer = None

(* cpu.step(), whatever else the host holds                                 *)
Stepped ==
    /\ ~fault
    /\ Len(hist) < MaxSteps
    /\ LET r == step(Cpu)
           panicked == r.res.tag = "Panic"
       IN  /\ hist' = Append(hist, [ call |-> "step", addr |-> registers.pc,
                                     value |-> 0, res |-> r.res, pre |-> Cpu ])
           /\ fault' = panicked
           /\ registers' = IF panicked THEN registers ELSE r.c.registers
           /\ memory' = IF panicked THEN memory ELSE r.c.memory
    /\ UNCHANGED <<rom, build, vectors, renderer, gui, server>>

(* cpu.step()                                                               *)
Step == Stepped /\ UNCHANGED peer

NextCpu == Step

SpecCpu == InitCpu /\ [][NextCpu]_vars

(* Interrupts: the host calls cpu.interrupt(cpu.vectors.nmi) between steps. *)
(* The programs put a byte of their own on the stack and then run one of    *)
(* the instructions that push or pull the status; both handlers are an RTI. *)
MaxInterrupts == 1

StackPointers == {\hFD, \h01}

StackBytes == {\h00, \hFF}

FlagOps == {\h38, \h58}

StatusOps == {\h08, \h28, \h00, \h68, \h40}

NmiHandler == \h8010

IrqHandler == \h8012

(* pc of the instruction that pushes or pulls: after the PHA.               *)
StartPc == \h8003

(*  LDX #s  TXS  LDA #v  PHA  SEC|CLI  op  NOP            ; $8000           *)
(*  RTI                                                   ; $8010           *)
(*  RTI                                                   ; $8012           *)
IrqProgram(s, v, flagop, op) ==
    << \hA2, s, \h9A, \hA9, v, \h48, flagop, op, \hEA, 0, 0, 0, 0, 0, 0, 0,
       \h40, 0, \h40 >>

IrqRom(program) ==
    [ CpuRom(program) EXCEPT !.prg_rom =
        @ @@ (\h3FFA :> \h10) @@ (\h3FFB :> \h80)
          @@ (\h3FFE :> \h12) @@ (\h3FFF :> \h80) ]

(*  LDA #imm  STA zp  BRK                                  ; $8000           *)
BreakProgram(imm, zp) == << \hA9, imm, \h85, zp, \h00 >>

BreakRoms ==
    { IrqRom(BreakProgram(imm, zp)) : imm \in {\h42, \h80}, zp \in {\h02, \hFF} }

(* Cpu::new(rom, None, ..) or Cpu::new(rom, Some(StartPc), ..).             *)
InitIrq ==
    /\ rom \in { IrqRom(IrqProgram(s, v, flagop, op)) :
                    s \in StackPointers, v \in StackBytes,
                    flagop \in FlagOps, op \in StatusOps } \cup BreakRoms
    /\ build \in Profiles
    /\ \E pc \in {-1, StartPc} :
       \E cpu \in {NewCpu(pc, <<GenericController, NoController>>)} :
           /\ registers = cpu.registers
           /\ vectors = cpu.vectors
           /\ memory = cpu.memory
           /\ fault = ~IsOk(cpu.res)
    /\ hist = <<>>
    /\ renderer = NewRenderer
    /\ gui = NewGui
    /\ server = NewServer
    /\ peer = None

Interrupts == {i \in 1..Len(hist) : hist[i].call = "interrupt"}

(* cpu.interrupt(pc)                                                        *)
Interrupt(pc) ==
    /\ ~fault
    /\ Len(hist) < MaxSteps
    /\ Cardinality(Interrupts) < MaxInterrupts
    /\ LET r == interrupt(Cpu, pc)
           panicked == r.res.tag = "Panic"
       IN  /\ hist' = Append(hist, [ call |-> "interrupt", addr |-> pc,
                                     value |-> 0, res |-> r.res, pre |-> Cpu ])
           /\ fault' = panicked
           /\ registers' = IF panicked THEN registers ELSE r.c.registers
           /\ memory' = IF panicked THEN memory ELSE r.c.memory
    /\ UNCHANGED <<rom, build, vectors, renderer, peer, gui, server>>

NextIrq ==
    \/ Step
    \/ \E pc \in {vectors.nmi, vectors.interrupt} : Interrupt(pc)

SpecIrq == InitIrq /\ [][NextIrq]_vars

(* Arithmetic and the indirect jump: programs that load a and the carry and *)
(* add or subtract an immediate operand, and programs that store a pointer  *)
(* in RAM and jump through it.                                              *)
AluBytes == {\h00, \h01, \h50, \h7F, \h80, \hF0, \hFF}

(*  LDA #a  SEC|CLC  ADC|SBC #m                                             *)
AluProgram(a, carry, op, m) ==
    << \hA9, a, IF carry THEN \h38 ELSE \h18, op, m >>

Pointers == {\h00FF, \h02FF, \h0280}

(*  LDA #$12  STA page   LDA #low  STA pointer   LDA #$56  STA pointer + 1  *)
(*  JMP (pointer)                         ; page = pointer with low byte 0  *)
JumpProgram(pointer, low) ==
    << \hA9, \h12, \h8D, 0, Shr(pointer, 8),
       \hA9, low, \h8D, And(pointer, \hFF), Shr(pointer, 8),
       \hA9, \h56, \h8D, And(pointer + 1, \hFF), Shr(pointer + 1, 8),
       \h6C, And(pointer, \hFF), Shr(pointer, 8) >>

InitOps ==
    /\ rom \in { CpuRom(AluProgram(a, carry, op, m)) :
                    a \in AluBytes, carry \in BOOLEAN, op \in {\h69, \hE9},
                    m \in AluBytes }
              \cup { CpuRom(JumpProgram(pointer, low)) :
                        pointer \in Pointers, low \in {\h34, \hFF} }
    /\ build \in Profiles
    /\ \E cpu \in {NewCpu(-1, <<GenericController, NoController>>)} :
           /\ registers = cpu.registers
           /\ vectors = cpu.vectors
           /\ memory = cpu.memory
           /\ fault = ~IsOk(cpu.res)
    /\ hist = <<>>
    /\ renderer = NewRenderer
    /\ gui = NewGui
    /\ server = NewServer
    /\ peer = None

NextOps == Step

SpecOps == InitOps /\ [][NextOps]_vars

----------------------------------------------------------------------------
(* The renderer on its own: a host that writes a few PPU ports and then     *)
(* calls render with a growing cycle count.                                 *)

(* The cycle count of three frames: 3 * 89342 dots.                         *)
MaxCycles == 89342

(* The cycles between two calls of render.                                  *)
Strides == {0, 4061, 8122}

(* The writes before the first call: NMI generation on, then an OAM DMA of  *)
(* the zeroed RAM page 2, which puts every sprite at (0, 0) with tile 0.    *)
ScanWrites == << <<\h2000, \h80>>, <<\h4014, \h02>> >>

(* Nothing the renderer does depends on the mirroring or on the build.      *)
InitScan ==
    /\ InitBus
    /\ rom.flags.mirroring = "Horizontal"
    /\ build.overflow_checks

(* memory.set(address, value) for the next write of ScanWrites              *)
Poke ==
    /\ ~fault
    /\ renderer.last_cycle = 0
    /\ Len(hist) < Len(ScanWrites)
    /\ \A i \in DOMAIN hist : hist[i].call = "set"
    /\ Record("set", ScanWrites[Len(hist) + 1][1], ScanWrites[Len(hist) + 1][2],
              set(memory, ScanWrites[Len(hist) + 1][1],
                  ScanWrites[Len(hist) + 1][2]))
    /\ UNCHANGED <<rom, build, registers, vectors, renderer, peer, gui, server>>

(* The writes of hist, without the call of render that may follow them.     *)
Writes == SelectSeq(hist, LAMBDA h : h.call = "set")

(* renderer.render(&mut memory.ppu, cycle); hist keeps the last such call,  *)
(* with the renderer it was made on.                                        *)
Scanned(stride) ==
    /\ ~fault
    /\ renderer.last_cycle + stride <= MaxCycles
    /\ \E r \in {render(renderer, memory.ppu, renderer.last_cycle + stride)} :
           /\ hist' = Append(Writes,
                             [ call |-> "render", addr |-> 0,
                               value |-> renderer.last_cycle + stride,
                               res |-> r.res, pre |-> Cpu,
                               renderer |-> renderer ])
           /\ fault' = (r.res.tag = "Panic")
           /\ renderer' = IF r.res.tag = "Panic" THEN renderer ELSE r.renderer
           /\ memory' = IF r.res.tag = "Panic" THEN memory
                        ELSE [memory EXCEPT !.ppu = r.ppu]
    /\ UNCHANGED <<rom, build, registers, vectors, gui, server>>

Scan(stride) == Scanned(stride) /\ UNCHANGED peer

NextScan ==
    \/ Poke
    \/ \E stride \in Strides : Scan(stride)

SpecScan == InitScan /\ [][NextScan]_vars

----------------------------------------------------------------------------
(* The two renderers side by side: after the writes of ScanWrites the host  *)
(* makes every call of render on a SoftwareRenderer and on a                *)
(* HardwareRenderer, each with its own Ppu.  peer holds the hardware side.  *)

(* The cycles of the calls made on the pair: some 2.4 frames.               *)
MaxPairCycles == 71000

(* The cycles between two calls: twice 13697 cycles end on dot (241,1).     *)
PairStrides == {4061, 13697}

(* The hardware side before its first call: a new renderer, and a Ppu that  *)
(* took the same writes.                                                    *)
HardwareSide ==
    IF peer = None
    THEN [renderer |-> NewHardwareRenderer, ppu |-> memory.ppu]
    ELSE [renderer |-> peer.value.renderer, ppu |-> peer.value.ppu]

ScanBoth(stride) ==
    /\ Len(Writes) = Len(ScanWrites)
    /\ renderer.last_cycle + stride <= MaxPairCycles
    /\ Scanned(stride)
    /\ peer' = Ok(hardware_render(HardwareSide.renderer, HardwareSide.ppu,
                                  renderer.last_cycle + stride))

NextPair ==
    \/ Poke /\ peer = None
    \/ \E stride \in PairStrides : ScanBoth(stride)

SpecPair == InitScan /\ [][NextPair]_vars

----------------------------------------------------------------------------
(* Snapshots: a host runs a program, at some point takes CpuState::from of  *)
(* the Cpu and restores it with the same ROM and the controllers as they    *)
(* are, and from then on steps the two Cpus side by side.                   *)

(*  LDA #$5A  STA $6000  LDX $6000  INX  STX $10  LDY $6000                 *)
SavedProgram ==
    << \hA9, \h5A, \h8D, \h00, \h60, \hAE, \h00, \h60, \hE8, \h86, \h10,
       \hAC, \h00, \h60 >>

(*  LDA #$21  STA $2006  STA $2006  STA $2007  LDA $2002  STA $0200         *)
(*  LDX $0200                                                               *)
PortProgram ==
    << \hA9, \h21, \h8D, \h06, \h20, \h8D, \h06, \h20, \h8D, \h07, \h20,
       \hAD, \h02, \h20, \h8D, \h00, \h02, \hAE, \h00, \h02 >>

(*  LDA #$01  STA $4016  LDA $4016  LDA $4016  STA $20  LDX $20             *)
PadProgram ==
    << \hA9, \h01, \h8D, \h16, \h40, \hAD, \h16, \h40, \hAD, \h16, \h40,
       \h85, \h20, \hA6, \h20 >>

InitSnap ==
    /\ rom \in {CpuRom(SavedProgram), CpuRom(PortProgram), CpuRom(PadProgram)}
    /\ build \in Profiles
    /\ \E cpu \in {NewCpu(-1, <<[GenericController EXCEPT !.flags = \hA5],
                                NoController>>)} :
           /\ registers = cpu.registers
           /\ vectors = cpu.vectors
           /\ memory = cpu.memory
           /\ fault = ~IsOk(cpu.res)
    /\ hist = <<>>
    /\ renderer = NewRenderer
    /\ gui = NewGui
    /\ server = NewServer
    /\ peer = None

(* CpuState::from(&cpu).restore(&rom, controllers); the restored Cpu is     *)
(* kept with the result of its last step and the cycle counts of the two    *)
(* Cpus at the restore.                                                     *)
Restore ==
    /\ ~fault
    /\ Len(hist) < MaxSteps
    /\ peer = None
    /\ \E r \in {restore(CpuStateFrom(Cpu), memory.controllers)} :
           /\ hist' = Append(hist, [ call |-> "restore", addr |-> registers.pc,
                                     value |-> 0, res |-> r, pre |-> Cpu ])
           /\ fault' = (r.tag = "Panic")
           /\ peer' =
                 IF ~IsOk(r) THEN None
                 ELSE Ok([ registers |-> r.value.registers,
                           vectors   |-> r.value.vectors,
                           memory    |-> r.value.memory,
                           res       |-> None,
                           from      |-> memory.cycles,
                           start     |-> r.value.memory.cycles ])
    /\ UNCHANGED <<rom, build, registers, vectors, memory, renderer, gui, server>>

(* The restored Cpu after a step that gave r.                               *)
SteppedTwin(twin, r) ==
    IF r.res.tag = "Panic" THEN Ok([twin EXCEPT !.res = r.res])
    ELSE Ok([twin EXCEPT !.registers = r.c.registers,
                         !.memory = r.c.memory,
                         !.res = r.res])

(* cpu.step() on the Cpu and, once there is one, on the restored Cpu        *)
StepBoth ==
    /\ Stepped
    /\ peer' =
          IF ~IsOk(peer) THEN peer
          ELSE SteppedTwin(peer.value,
                           step([ registers |-> peer.value.registers,
                                  memory    |-> peer.value.memory ]))

NextSnap ==
    \/ Restore
    \/ StepBoth

SpecSnap == InitSnap /\ [][NextSnap]_vars

----------------------------------------------------------------------------
(* Two runs of the emulation loop on one ROM.  The host sets buttons of the *)
(* first run's controller between passes; hist holds these calls, each with *)
(* the number of passes made before it, and ends with the count of the      *)
(* passes of the first run.  The second run follows and is given the same   *)
(* calls before the same passes.                                            *)

MaxIterations == 280

(* How far the first run may be ahead of the second.                        *)
MaxLead == 2

(* The passes before which the host may set a button, and what it sets:    *)
(* button A pressed.                                                        *)
InputSteps == {0, 16}

HostInputs == {<<1, TRUE>>}

(*  LDA #$3F  STA $2006  LDA #$11  STA $2006  LDA #$16  STA $2007           *)
(*  LDA #$00  STA $2006  STA $2006  LDA #$80  STA $2000                     *)
(*  loop: LDX $4016  STX $0203  LDA #$02  STA $4014  JMP loop               *)
LoopProgram ==
    << \hA9, \h3F, \h8D, \h06, \h20, \hA9, \h11, \h8D, \h06, \h20,
       \hA9, \h16, \h8D, \h07, \h20, \hA9, \h00, \h8D, \h06, \h20,
       \h8D, \h06, \h20, \hA9, \h80, \h8D, \h00, \h20,
       \hAE, \h16, \h40, \h8E, \h03, \h02, \hA9, \h02, \h8D, \h14, \h40,
       \h4C, \h1C, \h80 >>

(* The program at $8000, the NMI handler  INC $10  RTI  at $8040, one       *)
(* opaque row in tile 0.                                                    *)
LoopRom ==
    [ CpuRom(LoopProgram) EXCEPT
        !.prg_rom = @ @@ (\h40 :> \hE6) @@ (\h41 :> \h10) @@ (\h42 :> \h40)
                      @@ (\h3FFA :> \h40) @@ (\h3FFB :> \h80),
        !.chr_rom = (0 :> \h3C) ]

InitLoop ==
    /\ rom = LoopRom
    /\ build \in Profiles
    /\ \E cpu \in {NewCpu(-1, <<GenericController, NoController>>)} :
           /\ registers = cpu.registers
           /\ vectors = cpu.vectors
           /\ memory = cpu.memory
           /\ fault = ~IsOk(cpu.res)
           /\ peer = Ok([ registers |-> cpu.registers, vectors |-> cpu.vectors,
                          memory |-> cpu.memory, renderer |-> NewRenderer,
                          panic |-> ~IsOk(cpu.res), steps |-> 0 ])
    /\ hist = <<>>
    /\ renderer = NewRenderer
    /\ gui = NewGui
    /\ server = NewServer

Events == SelectSeq(hist, LAMBDA h : h.call = "controller_set")

Iterations == IF hist # <<>> /\ Last.call = "iterate" THEN Last.value ELSE 0

(* controller.set(flag, value) on the host thread                           *)
HostSet(flag, value) ==
    /\ ~fault
    /\ Iterations \in InputSteps
    /\ \A i \in DOMAIN Events : Events[i].at # Iterations
    /\ memory' = [memory EXCEPT !.controllers[1] = controller_set(@, flag, value)]
    /\ hist' = Append(Events, [ call |-> "controller_set", addr |-> flag,
                                value |-> value, at |-> Iterations ])
               \o SelectSeq(hist, LAMBDA h : h.call = "iterate")
    /\ UNCHANGED <<rom, build, registers, vectors, fault, renderer, peer, gui, server>>

(* One pass of the loop of the first run.                                   *)
Iterate ==
    /\ ~fault
    /\ Iterations < MaxIterations
    /\ Iterations - peer.value.steps < MaxLead
    /\ \E run \in {Pass([ registers |-> registers, vectors |-> vectors,
                         memory |-> memory, renderer |-> renderer,
                         panic |-> FALSE ])} :
           /\ registers' = run.registers
           /\ memory' = run.memory
           /\ renderer' = run.renderer
           /\ fault' = run.panic
    /\ hist' = Append(Events, [call |-> "iterate", value |-> Iterations + 1])
    /\ UNCHANGED <<rom, build, vectors, peer, gui, server>>

(* The second run with the buttons set that the host set before this pass.  *)
RECURSIVE Fed(_, _)
Fed(run, i) ==
    IF i > Len(Events) THEN run
    ELSE Fed(IF Events[i].at # run.steps THEN run
             ELSE [run EXCEPT !.memory.controllers[1] =
                       controller_set(@, Events[i].addr, Events[i].value)],
             i + 1)

(* One pass of the loop of the second run.                                  *)
Follow ==
    /\ ~peer.value.panic
    /\ peer.value.steps < Iterations
    /\ peer' = Ok([Pass(Fed(peer.value, 1)) EXCEPT !.steps = @ + 1])
    /\ UNCHANGED <<rom, build, registers, vectors, memory, hist, fault, renderer, gui, server>>

NextLoop ==
    \/ \E input \in HostInputs : HostSet(input[1], input[2])
    \/ Iterate
    \/ Follow

SpecLoop == InitLoop /\ [][NextLoop]_vars

----------------------------------------------------------------------------
(* The two threads of emgui on the controller latch: the host thread calls  *)
(* controller.set on key events, the emulation thread calls read when the   *)
(* program reads $4016.  A step is one statement of one thread.             *)

MaxCalls == 12

Buttons == {1, 2}

InitGui == InitBus /\ rom.flags.mirroring = "Horizontal" /\ build.overflow_checks

Others ==
    <<rom, build, registers, vectors, memory, hist, fault, renderer, peer, server>>

(* controller.set(flag, value) is called                                    *)
SetCalled(flag, value) ==
    /\ gui.host.at = "idle"
    /\ gui.calls < MaxCalls
    /\ gui' = [gui EXCEPT !.host = [IdleThread EXCEPT !.at = "lock",
                                       !.flag = flag, !.value = value],
                          !.calls = @ + 1]
    /\ UNCHANGED Others

(* let mut state = self.inner.lock().unwrap();                              *)
SetLocks ==
    /\ gui.host.at = "lock"
    /\ CanLock(gui)
    /\ gui' = [Locked(gui, "host") EXCEPT !.host.at = "flags",
                  !.host.locks = @ + 1, !.host.seen = gui.inner]
    /\ UNCHANGED Others

(* state.flags.set(flag, value)                                             *)
SetFlags ==
    /\ gui.host.at = "flags"
    /\ gui' = [gui EXCEPT !.inner = controller_set(@, gui.host.flag, gui.host.value),
                          !.host.at = "return"]
    /\ UNCHANGED Others

(* set returns: the guard is dropped                                        *)
SetReturns ==
    /\ gui.host.at = "return"
    /\ gui' = [Dropped(gui, "host") EXCEPT !.host.at = "idle"]
    /\ UNCHANGED Others

(* read() is called                                                         *)
ReadCalled ==
    /\ gui.emulation.at = "idle"
    /\ gui.calls < MaxCalls
    /\ gui' = [gui EXCEPT !.emulation = [IdleThread EXCEPT !.at = "lock"],
                          !.calls = @ + 1]
    /\ UNCHANGED Others

(* let mut state = self.inner.lock().unwrap();                              *)
ReadLocks ==
    /\ gui.emulation.at = "lock"
    /\ CanLock(gui)
    /\ gui' = [Locked(gui, "emulation") EXCEPT !.emulation.at = "clock",
                  !.emulation.locks = @ + 1, !.emulation.seen = gui.inner]
    /\ UNCHANGED Others

(* let clock = state.clock % 8;                                             *)
ReadClock ==
    /\ gui.emulation.at = "clock"
    /\ gui' = [gui EXCEPT !.emulation.clock = gui.inner.clock % 8,
                          !.emulation.at = "value"]
    /\ UNCHANGED Others

(* let value = state.flags.0 & (1 << clock) != 0;                           *)
ReadValue ==
    /\ gui.emulation.at = "value"
    /\ gui' = [gui EXCEPT
                  !.emulation.value =
                      And(gui.inner.flags, Shl(1, gui.emulation.clock)) # 0,
                  !.emulation.at = "count"]
    /\ UNCHANGED Others

(* state.clock += 1;                                                        *)
ReadCounts ==
    /\ gui.emulation.at = "count"
    /\ gui' = [gui EXCEPT !.inner.clock = @ + 1, !.emulation.at = "return"]
    /\ UNCHANGED Others

(* if value { 1 } else { 0 }, and the guard is dropped                      *)
ReadReturns ==
    /\ gui.emulation.at = "return"
    /\ gui' = [Dropped(gui, "emulation") EXCEPT
                  !.emulation.at = "idle",
                  !.emulation.result = IF gui.emulation.value THEN 1 ELSE 0]
    /\ UNCHANGED Others

NextGui ==
    \/ \E flag \in Buttons, value \in BOOLEAN : SetCalled(flag, value)
    \/ SetLocks
    \/ SetFlags
    \/ SetReturns
    \/ ReadCalled
    \/ ReadLocks
    \/ ReadClock
    \/ ReadValue
    \/ ReadCounts
    \/ ReadReturns

SpecGui == InitGui /\ [][NextGui]_vars

----------------------------------------------------------------------------
(* Writes through the PPU data port: programs that set the increment, load  *)
(* v through $2006 and store twice to $2007.                                *)

PortAddresses == {\h0000, \h1010, \h1FFF, \h2000, \h3FE0, \h3FFF}

(*  LDA #ctrl  STA $2000  LDA #high  STA $2006  LDA #low  STA $2006         *)
(*  STA $2007  STA $2007                                                    *)
DataProgram(ctrl, v) ==
    << \hA9, ctrl, \h8D, \h00, \h20, \hA9, Shr(v, 8), \h8D, \h06, \h20,
       \hA9, And(v, \hFF), \h8D, \h06, \h20, \h8D, \h07, \h20,
       \h8D, \h07, \h20 >>

InitPort ==
    /\ rom \in { CpuRom(DataProgram(ctrl, v)) :
                    ctrl \in {\h00, \h04}, v \in PortAddresses }
    /\ build \in Profiles
    /\ \E cpu \in {NewCpu(-1, <<GenericController, NoController>>)} :
           /\ registers = cpu.registers
           /\ vectors = cpu.vectors
           /\ memory = cpu.memory
           /\ fault = ~IsOk(cpu.res)
    /\ hist = <<>>
    /\ renderer = NewRenderer
    /\ gui = NewGui
    /\ server = NewServer
    /\ peer = None

NextPort == Step

SpecPort == InitPort /\ [][NextPort]_vars

----------------------------------------------------------------------------
(* Instruction fetches that run into unmapped memory: programs that put an  *)
(* opcode in the last two bytes of the RAM mirror, right below the PPU      *)
(* ports, and jump to it, into the ports or to a load from a port.          *)

FetchOpcodes == {\h00, \h02, \h03, \hA9, \hAD, \hE8, \hEA}

(* pc of the  LDA $2000  that ends the program                              *)
LoadPc == \h800B

FetchTargets == {\h1FFE, \h1FFF, \h2000, LoadPc}

(*  LDA #op  STA $07FE  STA $07FF  JMP target  LDA $2000                    *)
FetchProgram(op, target) ==
    << \hA9, op, \h8D, \hFE, \h07, \h8D, \hFF, \h07,
       \h4C, And(target, \hFF), Shr(target, 8), \hAD, \h00, \h20 >>

InitFetch ==
    /\ rom \in { CpuRom(FetchProgram(op, target)) :
                    op \in FetchOpcodes, target \in FetchTargets }
    /\ build \in Profiles
    /\ \E cpu \in {NewCpu(-1, <<GenericController, NoController>>)} :
           /\ registers = cpu.registers
           /\ vectors = cpu.vectors
           /\ memory = cpu.memory
           /\ fault = ~IsOk(cpu.res)
    /\ hist = <<>>
    /\ renderer = NewRenderer
    /\ gui = NewGui
    /\ server = NewServer
    /\ peer = None

NextFetch == Step

SpecFetch == InitFetch /\ [][NextFetch]_vars

----------------------------------------------------------------------------
(* Long runs on the scroll and address ports: the calls of a host on $2000, *)
(* $2002, $2005, $2006 and $2007.  hist keeps the last call only, so that   *)
(* runs that lead to the same Ppu meet.                                     *)

(* How many accesses a run makes.                                           *)
MaxTouches == 6

LoopyReads == {\h2002, \h2007}

LoopyWrites ==
    ({\h2000} \X {\h04, \h83}) \cup
    ({\h2005} \X {\h00, \hFF}) \cup
    ({\h2006} \X {\h3F, \hFF}) \cup
    ({\h2007} \X {\h21})

(* Memory.cycles of a new Cpu: each access adds one.                        *)
StartCycles == NewCpu(-1, <<GenericController, NoController>>).memory.cycles

Touched(call, addr, value, r) ==
    /\ ~fault
    /\ memory.cycles < StartCycles + MaxTouches
    /\ hist' = << [ call |-> call, addr |-> addr, value |-> value,
                    res |-> r.res, pre |-> Cpu ] >>
    /\ fault' = (r.res.tag = "Panic")
    /\ memory' = IF r.res.tag = "Panic" THEN memory ELSE r.m
    /\ UNCHANGED <<rom, build, registers, vectors, renderer, peer, gui, server>>

(* memory.get(address)                                                      *)
TouchGet(address) == Touched("get", address, 0, get(memory, address))

(* memory.set(address, value)                                               *)
TouchSet(address, value) ==
    Touched("set", address, value, set(memory, address, value))

InitLoopy ==
    /\ InitBus
    /\ rom.flags.mirroring = "Vertical"

NextLoopy ==
    \/ \E address \in LoopyReads : TouchGet(address)
    \/ \E w \in LoopyWrites : TouchSet(w[1], w[2])

SpecLoopy == InitLoopy /\ [][NextLoopy]_vars

----------------------------------------------------------------------------
(* The framing of a connection: a client sends a few messages with          *)
(* send_message, and the server reads the bytes in chunks of any size with  *)
(* read_into and calls pop whenever it likes.                               *)

(* How many messages a client sends.                                        *)
MaxMessages == 2

(* The payloads: empty, one byte, two bytes that read as a length, and one  *)
(* whose length needs two bytes.                                            *)
LongPayload == [i \in 1..257 |-> i % 2]

Payloads == {<<>>, <<8>>, <<0, 0>>, LongPayload}

(* How many bytes a read may give.                                          *)
Chunks == {1, 7, 9, 300}

RECURSIVE Stream(_)
Stream(messages) ==
    IF messages = <<>> THEN <<>>
    ELSE send_message(Head(messages)) \o Stream(Tail(messages))

InitWire ==
    /\ rom = BusRom("Horizontal")
    /\ build = [overflow_checks |-> TRUE]
    /\ \E cpu \in {NewCpu(-1, <<GenericController, NoController>>)} :
           /\ registers = cpu.registers
           /\ vectors = cpu.vectors
           /\ memory = cpu.memory
           /\ fault = ~IsOk(cpu.res)
    /\ hist = <<>>
    /\ renderer = NewRenderer
    /\ gui = NewGui
    /\ peer = None
    /\ \E count \in 1..MaxMessages :
           \E messages \in [1..count -> Payloads] :
               server = [NewServer EXCEPT !.sent = messages,
                                          !.wire = Stream(messages)]

(* read_into with a read of n bytes, or of all there is when that is less.  *)
ReadInto(n) ==
    /\ server.wire # <<>>
    /\ \E got \in {IF n < Len(server.wire) THEN n ELSE Len(server.wire)} :
           server' = [server EXCEPT
                         !.delimiter = delimiter_push(@, SubSeq(server.wire, 1, got)),
                         !.wire = Drained(@, got)]
    /\ hist' = << [call |-> "push", res |-> None, pre |-> server] >>
    /\ UNCHANGED <<rom, build, registers, vectors, memory, fault, renderer, peer, gui>>

(* delimiter.pop()                                                          *)
Pop ==
    /\ \E r \in {delimiter_pop(server.delimiter)} :
           /\ server' = [server EXCEPT
                            !.delimiter = r.d,
                            !.popped = IF IsOk(r.res) THEN Append(@, r.res.value)
                                       ELSE @]
           /\ hist' = << [call |-> "pop", res |-> r.res, pre |-> server] >>
    /\ UNCHANGED <<rom, build, registers, vectors, memory, fault, renderer, peer, gui>>

NextWire ==
    \/ \E n \in Chunks : ReadInto(n)
    \/ Pop

SpecWire == InitWire /\ [][NextWire]_vars

----------------------------------------------------------------------------
(* Requests on an instance of the server.  A TakeAction for a frame runs    *)
(* the program of the instance up to its next BRK, which ends run_frames    *)
(* with an error, and one for no frame, which the client may start with,    *)
(* returns at once; between two of them the client may ask for the frame    *)
(* with a few memory requests and may set a state.                          *)

(* How many requests and results a run holds.                               *)
MaxRequests == 12

(* How many passes of its loop a call of run_frames is followed for.        *)
MaxPasses == 230

(*  LDA #$21  STA $2006  BRK  STA $2006  BRK  STA $2007  BRK  STA $2006     *)
(*  BRK  LDA #$01  STA $4016  LDA $4016  BRK                                *)
ServeProgram ==
    << \hA9, \h21, \h8D, \h06, \h20, \h00, \h8D, \h06, \h20, \h00,
       \h8D, \h07, \h20, \h00, \h8D, \h06, \h20, \h00,
       \hA9, \h01, \h8D, \h16, \h40, \hAD, \h16, \h40, \h00 >>

(* memory_requests, each in an order the map may yield it: key and address. *)
ServeRequests ==
    { << <<"ram", \h0010>> >>,
      << <<"status", \h2002>> >>,
      << <<"data", \h2007>> >>,
      << <<"pad", \h4016>> >>,
      << <<"control", \h2000>> >>,
      << <<"wide", \h12002>> >>,
      << <<"data", \h2007>>, <<"status", \h2002>> >>,
      << <<"rom", \h8000>>, <<"page", \h0200>>, <<"saved", \h6000>> >> }

(* NesInstance::new(&rom), and the instance as the variables hold it.       *)
InitInstance ==
    /\ build \in Profiles
    /\ \E cpu \in {NewCpu(-1, <<GenericController, NoController>>)} :
           /\ registers = cpu.registers
           /\ vectors = cpu.vectors
           /\ memory = cpu.memory
           /\ fault = ~IsOk(cpu.res)
    /\ hist = <<>>
    /\ renderer = NewRenderer
    /\ gui = NewGui
    /\ server = NewServer
    /\ peer = None

Instance ==
    [ registers |-> registers, vectors |-> vectors, memory |-> memory,
      renderer |-> renderer, frame |-> server.frame ]

Served(call) == \E i \in DOMAIN hist : hist[i].call = call

(* A request or a result, with the instance before it.                      *)
Request(call, value, res) ==
    [ call |-> call, addr |-> 0, value |-> value, res |-> res, pre |-> Cpu,
      instance |-> Instance, run |-> server.run ]

(* EmulatorContents::TakeAction up to the loop of run_frames: the flags of  *)
(* the input are pressed and frame_count is 0.                              *)
TakeAction(skip_frames, input, requests) ==
    /\ ~fault
    /\ server.open
    /\ ~server.run.active
    /\ Len(hist) < MaxRequests
    /\ memory' = [memory EXCEPT !.controllers[1] = press(@, input)]
    /\ server' = [server EXCEPT !.run =
                     [ active |-> TRUE, skip_frames |-> skip_frames,
                       frame_count |-> 0, passes |-> 0,
                       requests |-> requests ]]
    /\ hist' = Append(hist, Request("take_action", skip_frames, None))
    /\ UNCHANGED <<rom, build, registers, vectors, fault, renderer, peer, gui>>

(* One pass of `while frame_count < skip_frames`; an error ends run_frames  *)
(* and is answered with an ActionResult that carries it.                    *)
RunPass ==
    /\ ~fault
    /\ server.run.active
    /\ server.run.frame_count < server.run.skip_frames
    /\ server.run.passes < MaxPasses
    /\ \E p \in {FramePass(Instance)} :
           /\ fault' = p.panic
           /\ registers' = p.inst.registers
           /\ memory' = p.inst.memory
           /\ renderer' = p.inst.renderer
           /\ server' =
                 IF p.panic THEN server
                 ELSE IF IsOk(p.res)
                 THEN [server EXCEPT !.frame = p.inst.frame,
                                     !.run.frame_count = @ + p.frames,
                                     !.run.passes = @ + 1]
                 ELSE [server EXCEPT
                          !.run.active = FALSE,
                          !.run.frame_count = @ + p.frames,
                          !.run.passes = @ + 1,
                          !.replies = Append(@, [ kind |-> "ActionResult",
                                                  error |-> p.res ])]
           /\ hist' = IF p.panic \/ IsOk(p.res) THEN hist
                      ELSE Append(hist, Request("action_result",
                                                server.run.passes + 1, p.res))
    /\ UNCHANGED <<rom, build, vectors, peer, gui>>

(* run_frames returns Ok: the values are read back and the ActionResult     *)
(* with the frame is sent.                                                  *)
RunReturn ==
    /\ ~fault
    /\ server.run.active
    /\ server.run.frame_count >= server.run.skip_frames
    /\ \E g \in {get_values([m |-> memory, values |-> <<>>, panic |-> FALSE],
                            server.run.requests)} :
           /\ fault' = g.panic
           /\ memory' = IF g.panic THEN memory ELSE g.m
           /\ server' = IF g.panic THEN server
                        ELSE [server EXCEPT
                                 !.run.active = FALSE,
                                 !.replies = Append(@, [ kind |-> "ActionResult",
                                                         frame |-> server.frame,
                                                         memory_values |-> g.values ])]
           /\ hist' = Append(hist, Request("action_result", server.run.passes,
                                           IF g.panic THEN Panic ELSE Ok(0)))
    /\ UNCHANGED <<rom, build, registers, vectors, renderer, peer, gui>>

(* EmulatorContents::GetFrame                                               *)
GetFrame(requests) ==
    /\ ~fault
    /\ server.open
    /\ ~server.run.active
    /\ Len(hist) < MaxRequests
    /\ ~Served("get_frame")
    /\ \E g \in {get_values([m |-> memory, values |-> <<>>, panic |-> FALSE],
                            requests)} :
           /\ hist' = Append(hist, Request("get_frame", requests,
                                           IF g.panic THEN Panic ELSE Ok(0)))
           /\ fault' = g.panic
           /\ memory' = IF g.panic THEN memory ELSE g.m
           /\ server' = IF g.panic THEN server
                        ELSE [server EXCEPT !.replies =
                                 Append(@, [ kind |-> "FrameDetails",
                                             frame |-> server.frame,
                                             memory_values |-> g.values ])]
    /\ UNCHANGED <<rom, build, registers, vectors, renderer, peer, gui>>

(* What postcard::from_bytes may give for the bytes of a SetState: an       *)
(* error, the state of the Cpu c, or that state with a Vec of another       *)
(* length.                                                                  *)
StatePayloads(c) ==
    { Err("postcard", 0),
      Ok(CpuStateFrom(c)),
      Ok([CpuStateFrom(c) EXCEPT !.ram.len = RAM_SIZE - 1]),
      Ok([CpuStateFrom(c) EXCEPT !.ppu.memory.oam.len = SPRITE_COUNT + 1]),
      Ok([CpuStateFrom(c) EXCEPT !.ppu.memory.names_len = 3]),
      Ok([CpuStateFrom(c) EXCEPT !.ppu.memory.names[2].len = NAME_TABLE_SIZE - 1]) }

(* EmulatorContents::SetState                                               *)
SetState(payload) ==
    /\ ~fault
    /\ server.open
    /\ ~server.run.active
    /\ Len(hist) < MaxRequests
    /\ ~Served("set_state")
    /\ \E r \in {set_state(Instance, payload)} :
           /\ hist' = Append(hist, Request("set_state", payload,
                                           IF r.panic THEN Panic ELSE Ok(0)))
           /\ fault' = r.panic
           /\ registers' = r.inst.registers
           /\ vectors' = r.inst.vectors
           /\ memory' = r.inst.memory
           /\ renderer' = r.inst.renderer
           /\ server' = IF r.panic THEN server
                        ELSE [server EXCEPT !.replies =
                                 Append(@, [ kind |-> "SetStateResult",
                                             parse_error |-> r.parse_error ])]
    /\ UNCHANGED <<rom, build, peer, gui>>

InitServe ==
    /\ rom = CpuRom(ServeProgram)
    /\ InitInstance

NextServe ==
    \/ \E skip_frames \in {0, 1} :
           /\ skip_frames = 0 => hist = <<>>
           /\ TakeAction(skip_frames, \hA5, << <<"ram", \h0010>> >>)
    \/ RunPass
    \/ RunReturn
    \/ \E requests \in ServeRequests : GetFrame(requests)
    \/ \E payload \in StatePayloads(Cpu) : SetState(payload)

SpecServe == InitServe /\ [][NextServe]_vars

----------------------------------------------------------------------------
(* run_frames on its own: one TakeAction on a new instance whose program    *)
(* writes $2000 once and then loops on an OAM DMA of the zeroed RAM page 2. *)

(*  LDA #control  STA $2000  LDA #$02  loop: STA $4014  JMP loop  RTI       *)
FramesProgram(control) ==
    << \hA9, control, \h8D, \h00, \h20, \hA9, \h02,
       \h8D, \h14, \h40, \h4C, \h07, \h80, \h40 >>

(* The RTI of the program.                                                  *)
FramesHandler == \h800D

(* The program with the NMI vector at nmi.                                  *)
FramesRom(control, nmi) ==
    [CpuRom(FramesProgram(control)) EXCEPT
        !.prg_rom = @ @@ (\h3FFA :> And(nmi, \hFF)) @@ (\h3FFB :> Shr(nmi, 8))]

(* NMI generation on with a handler that returns, never on, and on with a   *)
(* handler that is a BRK in RAM.                                            *)
FramesRoms ==
    { FramesRom(\h80, FramesHandler), FramesRom(\h00, FramesHandler),
      FramesRom(\h80, \h0000) }

SkipFrames == {0, 1, 2}

InitFrames ==
    /\ rom \in FramesRoms
    /\ InitInstance
    /\ build.overflow_checks

NextFrames ==
    \/ /\ hist = <<>>
       /\ \E skip_frames \in SkipFrames : TakeAction(skip_frames, \hA5, <<>>)
    \/ RunPass
    \/ RunReturn

SpecFrames == InitFrames /\ [][NextFrames]_vars

----------------------------------------------------------------------------
(* Properties of the PPU ports, checked under SpecRegs.                     *)

Ppu == memory.ppu

Render == memory.ppu.registers.render

PreRegs(h) == h.pre.memory.ppu.registers

PreRender(h) == h.pre.memory.ppu.registers.render

IsLatchWrite(h) == h.call = "set" /\ h.addr \in {\h2005, \h2006}

(* The number of $2005/$2006 writes in h since its last $2002 read.         *)
RECURSIVE LatchWrites(_)
LatchWrites(h) ==
    IF h = <<>> THEN 0
    ELSE LET e == h[Len(h)]
         IN  IF Called(e, "get", \h2002) THEN 0
             ELSE (IF IsLatchWrite(e) THEN 1 ELSE 0)
                  + LatchWrites(SubSeq(h, 1, Len(h) - 1))

(* ((hi & 0x3F) << 8) | lo, by arithmetic.                                  *)
AddressOf(hi, lo) == (hi % 64) * 256 + lo

(* C2: after a read of $2002 the vblank flag is false and the latch w is    *)
(* false, and the byte read is (sprite_zero_hit << 6) | (vblank << 7) of    *)
(* the flags before the read.                                               *)
C2_StatusReadClearsVblank ==
    (Len(hist) >= 1 /\ Called(Last, "get", \h2002)) =>
        /\ IsOk(Last.res)
        /\ Last.res.value =
              (IF PreRegs(Last).status.sprite_hit THEN 64 ELSE 0)
              + (IF PreRegs(Last).status.v_blank_hit THEN 128 ELSE 0)
        /\ ~Render.w
        /\ ~Ppu.registers.status.v_blank_hit

(* C3: from w = false, $2006 <- hi then $2006 <- lo leaves                  *)
(* v = t = ((hi & 0x3F) << 8) | lo and w = false; after the first write     *)
(* alone v is unchanged, t bits 8-13 are hi & 0x3F, t bit 14 is 0 and w is  *)
(* true.                                                                    *)
C3_AddressWritePair ==
    /\ (Len(hist) >= 1 /\ Called(Last, "set", \h2006) /\ ~PreRender(Last).w) =>
          /\ IsOk(Last.res)
          /\ Render.v = PreRender(Last).v
          /\ (Render.t \div 256) % 64 = Last.value % 64
          /\ (Render.t \div 16384) % 2 = 0
          /\ Render.w
    /\ (Len(hist) >= 2 /\ Called(Prev, "set", \h2006) /\ ~PreRender(Prev).w
                       /\ Called(Last, "set", \h2006)) =>
          /\ IsOk(Last.res)
          /\ Render.v = AddressOf(Prev.value, Last.value)
          /\ Render.t = AddressOf(Prev.value, Last.value)
          /\ ~Render.w

(* $2006 <- $21, $2006 <- $08 from w = false has been done: v is 0x2108.    *)
C3_Witness ==
    /\ Len(hist) >= 2
    /\ Called(Prev, "set", \h2006) /\ Prev.value = \h21 /\ ~PreRender(Prev).w
    /\ Called(Last, "set", \h2006) /\ Last.value = \h08
    /\ Render.v = \h2108

(* C4: w is one latch shared by $2005 and $2006: it is true exactly when an *)
(* odd number of $2005/$2006 writes were made since the last $2002 read (or *)
(* since reset); after $2006 <- a, read $2002, $2006 <- b, $2006 <- c the   *)
(* address v is ((b & 0x3F) << 8) | c; writes to $2000, $2001, $2003,       *)
(* $2004, $2007 and reads of $2004 and $2007 leave w as it was.             *)
C4_SharedLatch ==
    /\ Render.w <=> (LatchWrites(hist) % 2 = 1)
    /\ (Len(hist) >= 1 /\ ~IsLatchWrite(Last) /\ ~Called(Last, "get", \h2002)) =>
          Render.w = PreRender(Last).w
    /\ (Len(hist) >= 4 /\ Called(hist[Len(hist) - 3], "set", \h2006)
                       /\ Called(hist[Len(hist) - 2], "get", \h2002)
                       /\ Called(Prev, "set", \h2006)
                       /\ Called(Last, "set", \h2006)) =>
          Render.v = AddressOf(Prev.value, Last.value)

(* $2006 <- a, read $2002, $2006 <- $21, $2006 <- $08 has been done with    *)
(* the first write made as a first write: v is 0x2108 and w is false.       *)
C4_Witness ==
    /\ Len(hist) >= 4
    /\ Called(hist[Len(hist) - 3], "set", \h2006)
    /\ ~PreRender(hist[Len(hist) - 3]).w
    /\ Called(hist[Len(hist) - 2], "get", \h2002)
    /\ Called(Prev, "set", \h2006) /\ Prev.value = \h21
    /\ Called(Last, "set", \h2006) /\ Last.value = \h08
    /\ Render.v = \h2108 /\ ~Render.w

(* The increment of v after a $2007 access in state h.pre.                  *)
PreStep(h) == IF PreRegs(h).control.increment_32 THEN 32 ELSE 1

IsDataRead(h) == Called(h, "get", \h2007)

IsDataWrite(h) == Called(h, "set", \h2007)

(* C5: a $2007 read returns the read_buffer of before the read, refills     *)
(* read_buffer with the PPU-bus byte at v and adds 1 or 32 to v, so of two  *)
(* consecutive reads the second returns the byte at the v of the first;     *)
(* this holds at every PPU address up to $3FFF, the palette included.       *)
C5_BufferedDataRead ==
    /\ (Len(hist) >= 1 /\ IsDataRead(Last) /\ PreRender(Last).v <= \h3FFF) =>
          /\ Last.res = Ok(PreRegs(Last).read_buffer)
          /\ Ok(Ppu.registers.read_buffer) =
                PpuMemoryRead(Last.pre.memory.ppu.memory, PreRender(Last).v)
          /\ Render.v = PreRender(Last).v + PreStep(Last)
    /\ (Len(hist) >= 2 /\ IsDataRead(Prev) /\ IsDataRead(Last)
                       /\ PreRender(Last).v <= \h3FFF) =>
          Ok(Last.res.value) =
             PpuMemoryRead(Prev.pre.memory.ppu.memory, PreRender(Prev).v)

(* The other address of a palette pair $3F00/$3F10, $3F04/$3F14, ...        *)
PalettePair(address) ==
    IF address % \h20 >= \h10 THEN address - \h10 ELSE address + \h10

(* C6: a byte written through $2007 at one address of a palette pair        *)
(* ($3F00/$3F10, $3F04/$3F14, $3F08/$3F18, $3F0C/$3F1C) is the byte read    *)
(* at both addresses of the pair, and a read at any palette address         *)
(* succeeds.                                                                *)
C6_PaletteAlias ==
    /\ (Len(hist) >= 1 /\ IsDataWrite(Last)
          /\ PreRender(Last).v \in \h3F00..\h3F1F /\ PreRender(Last).v % 4 = 0) =>
          /\ IsOk(Last.res)
          /\ PpuMemoryRead(Ppu.memory, PreRender(Last).v) = Ok(Last.value)
          /\ PpuMemoryRead(Ppu.memory, PalettePair(PreRender(Last).v))
                = Ok(Last.value)
    /\ (Len(hist) >= 1 /\ IsDataRead(Last)
          /\ PreRender(Last).v \in \h3F00..\h3F1F) => IsOk(Last.res)

(* The address that shares a physical name table with `address`             *)
(* ($2000-$2FFF) under the cartridge's mirroring.                           *)
MirrorOf(address, mirroring) ==
    LET page == (address - \h2000) \div \h400
    IN  IF mirroring = "Horizontal"
        THEN (IF page % 2 = 0 THEN address + \h400 ELSE address - \h400)
        ELSE (IF page < 2 THEN address + \h800 ELSE address - \h800)

(* C7: name-table storage is two physical pages: a byte written at          *)
(* $2000-$2FFF is read back at the address the ROM's mirroring aliases it   *)
(* to (Horizontal: $2000/$2400 and $2800/$2C00; Vertical: $2000/$2800 and   *)
(* $2400/$2C00), and at the same offset in $3000-$3EFF.                     *)
C7_NametableMirroring ==
    (Len(hist) >= 1 /\ IsDataWrite(Last) /\ IsOk(Last.res)
        /\ PreRender(Last).v \in \h2000..\h2FFF) =>
        /\ PpuMemoryRead(Ppu.memory, PreRender(Last).v) = Ok(Last.value)
        /\ PpuMemoryRead(Ppu.memory,
                         MirrorOf(PreRender(Last).v, rom.flags.mirroring))
              = Ok(Last.value)
        /\ (PreRender(Last).v + \h1000 <= \h3EFF) =>
              PpuMemoryRead(Ppu.memory, PreRender(Last).v + \h1000)
                 = Ok(Last.value)

(* The OAM byte at address a: field a % 4 of sprite a / 4.                  *)
OamByte(ppu, a) == SpriteRead(OamRd(ppu.memory.oam, a \div 4), a % 4)

(* C9: a write of value to $2004 stores it in the OAM byte at oam_address   *)
(* and then adds 1 to oam_address modulo 256.                               *)
C9_OamDataWriteIncrements ==
    (Len(hist) >= 1 /\ Called(Last, "set", \h2004)) =>
        /\ IsOk(Last.res)
        /\ OamByte(Ppu, PreRegs(Last).oam_address) = Last.value
        /\ Ppu.registers.oam_address = (PreRegs(Last).oam_address + 1) % 256

----------------------------------------------------------------------------
(* Properties of Cpu::step, checked under SpecCpu.                          *)

(* The byte at an address of the CPU bus, read without side effects.        *)
Peek(cpu, address) == pass_get(cpu.memory, U16(address)).res.value

(* The decode entry of the instruction at cpu's pc.                         *)
OpAt(cpu) == OPCODES[Peek(cpu, cpu.registers.pc) + 1]

ReadOps ==
    {"lda", "ldx", "ldy", "ora", "and", "eor", "adc", "sbc", "cmp", "cpx",
     "cpy", "bit", "nop"}

StoreOps == {"sta", "stx", "sty"}

ModifyOps == {"asl", "lsr", "rol", "ror", "inc", "dec"}

ImpliedOps ==
    {"dex", "dey", "inx", "iny", "tax", "tay", "txa", "tya", "tsx", "txs",
     "clc", "sec", "cli", "sei", "clv", "cld", "sed"}

BranchOps == {"bpl", "bmi", "bvc", "bvs", "bcc", "bcs", "bne", "beq"}

(* Whether the branch `name` is taken with status p.                        *)
BranchTaken(name, p) ==
    LET flag == CASE name \in {"bpl", "bmi"} -> (p \div 128) % 2
                  [] name \in {"bvc", "bvs"} -> (p \div 64) % 2
                  [] name \in {"bcc", "bcs"} -> p % 2
                  [] name \in {"bne", "beq"} -> (p \div 2) % 2
    IN  IF name \in {"bmi", "bvs", "bcs", "beq"} THEN flag = 1 ELSE flag = 0

(* The cycle count of the 6502 for the instruction at cpu's pc, in cpu's    *)
(* state: the documented count of the opcode and addressing mode, one more  *)
(* for an indexed read that crosses a page, one more for a taken branch and *)
(* a further one when the branch target is in another page.                 *)
StandardCycles(cpu) ==
    LET pc      == cpu.registers.pc
        name    == OpAt(cpu)[1]
        mode    == OpAt(cpu)[2]
        b1      == Peek(cpu, pc + 1)
        crossed == CASE mode = "ax" -> b1 + cpu.registers.x > 255
                     [] mode = "ay" -> b1 + cpu.registers.y > 255
                     [] mode = "dy" -> Peek(cpu, b1) + cpu.registers.y > 255
                     [] OTHER -> FALSE
        penalty == IF crossed THEN 1 ELSE 0
        next_pc == U16(pc + 2)
        target  == (next_pc + (IF b1 >= 128 THEN b1 - 256 ELSE b1) + 65536) % 65536
    IN  CASE name \in ReadOps ->
                (CASE mode \in {"g", "i"} -> 2
                   [] mode = "z" -> 3
                   [] mode \in {"zx", "zy", "a"} -> 4
                   [] mode \in {"ax", "ay"} -> 4 + penalty
                   [] mode = "dx" -> 6
                   [] mode = "dy" -> 5 + penalty)
          [] name \in StoreOps ->
                (CASE mode = "z" -> 3
                   [] mode \in {"zx", "zy", "a"} -> 4
                   [] mode \in {"ax", "ay"} -> 5
                   [] mode \in {"dx", "dy"} -> 6)
          [] name \in ModifyOps ->
                (CASE mode = "g" -> 2
                   [] mode = "z" -> 5
                   [] mode \in {"zx", "a"} -> 6
                   [] mode = "ax" -> 7)
          [] name \in ImpliedOps -> 2
          [] name \in BranchOps ->
                IF ~BranchTaken(name, cpu.registers.p) THEN 2
                ELSE IF next_pc \div 256 = target \div 256 THEN 3 ELSE 4
          [] name \in {"php", "pha"} -> 3
          [] name \in {"plp", "pla"} -> 4
          [] name \in {"jsr", "rts", "rti"} -> 6
          [] name = "jmp" -> IF mode = "a" THEN 3 ELSE 5
          [] name = "brk" -> 7
          [] OTHER -> 0

IsStep(h) == h.call = "step"

StepCycles(h, after) == after - h.pre.memory.cycles

(* C1: a step that returns Ok adds to Memory.cycles exactly the standard    *)
(* 6502 cycle count of its opcode and addressing mode: one more for an      *)
(* indexed read that crosses a page, one or two more for a taken branch,    *)
(* and a fixed count for stores and read-modify-write instructions.         *)
C1_StepCyclesAreStandard ==
    (Len(hist) >= 1 /\ IsStep(Last) /\ IsOk(Last.res)) =>
        StepCycles(Last, memory.cycles) = StandardCycles(Last.pre)

----------------------------------------------------------------------------
(* Properties of the CPU bus, checked under SpecBus.                        *)

(* The call h made again, in the state h was made in, at another address.   *)
Replayed(h, address) ==
    IF h.call = "get" THEN get(h.pre.memory, address)
    ELSE set(h.pre.memory, address, h.value)

(* C8: an access to an address in $2008-$3FFF has the result and the        *)
(* effect on the PPU of the same access to $2000 + (address mod 8).         *)
C8_PortMirrors ==
    (Len(hist) >= 1 /\ Last.addr \in \h2008..\h3FFF) =>
        /\ Last.res = Replayed(Last, \h2000 + (Last.addr % 8)).res
        /\ memory.ppu = Replayed(Last, \h2000 + (Last.addr % 8)).m.ppu

(* Entry i of OAM as the four bytes at page * 256 + 4i of the CPU memory m. *)
SpriteAt(m, page, i) ==
    [ y      |-> pass_get(m, page * 256 + 4 * i).res.value,
      number |-> pass_get(m, page * 256 + 4 * i + 1).res.value,
      mask   |-> pass_get(m, page * 256 + 4 * i + 2).res.value,
      x      |-> pass_get(m, page * 256 + 4 * i + 3).res.value ]

IsRamOrRomPage(page) == page < \h20 \/ page >= \h80

----------------------------------------------------------------------------
(* Interrupts and the stack, under SpecIrq.                                 *)

(* The Cpu after call i of the run.                                         *)
After(i) == IF i = Len(hist) THEN Cpu ELSE hist[i + 1].pre

(* The byte at $0100 + (s mod 256) of cpu's RAM.                            *)
StackAt(cpu, s) == Rd(cpu.memory.ram, STACK_START + U8(s + 256))

(* Call i executed the instruction called name.                             *)
Executes(i, name) == IsStep(hist[i]) /\ OpAt(hist[i].pre)[1] = name

IsInterrupt(h) == h.call = "interrupt"

(* C11: the status byte PHP pushes and the one BRK pushes have bits 5 (U)   *)
(* and 4 (B) set; the one Cpu.interrupt pushes has bit 5 set and bit 4      *)
(* clear.                                                                   *)
C11_PushedStatus ==
    \A i \in 1..Len(hist) :
        /\ Executes(i, "php") =>
              And(StackAt(After(i), hist[i].pre.registers.sp), ENABLED_BIT + BREAK)
                  = ENABLED_BIT + BREAK
        /\ Executes(i, "brk") =>
              And(StackAt(After(i), hist[i].pre.registers.sp - 2), ENABLED_BIT + BREAK)
                  = ENABLED_BIT + BREAK
        /\ IsInterrupt(hist[i]) =>
              And(StackAt(After(i), hist[i].pre.registers.sp - 2), ENABLED_BIT + BREAK)
                  = ENABLED_BIT

(* C12: Cpu.interrupt(target), called with stack pointer s and program      *)
(* counter pc, leaves pc's high byte at $0100 + s, pc's low byte at         *)
(* $0100 + (s - 1 mod 256) and the status (p with U set; B is the subject   *)
(* of C11) at $0100 + (s - 2 mod 256), sp = s - 3 mod 256, pc = target,     *)
(* a, x, y and p as they were, and Memory.cycles three higher.              *)
C12_InterruptEntry ==
    \A i \in 1..Len(hist) :
        IsInterrupt(hist[i]) =>
            LET before == hist[i].pre.registers
                s      == before.sp
            IN  /\ IsOk(hist[i].res)
                /\ StackAt(After(i), s) = Shr(before.pc, 8)
                /\ StackAt(After(i), s - 1) = And(before.pc, \hFF)
                /\ Or(StackAt(After(i), s - 2), BREAK)
                      = Or(Or(before.p, ENABLED_BIT), BREAK)
                /\ After(i).registers.sp = U8(s + 256 - 3)
                /\ After(i).registers.pc = hist[i].addr
                /\ After(i).registers.a = before.a
                /\ After(i).registers.x = before.x
                /\ After(i).registers.y = before.y
                /\ After(i).registers.p = before.p
                /\ After(i).memory.cycles = hist[i].pre.memory.cycles + 3

(* An interrupt taken with sp = $01: the status byte went to $01FF.         *)
C12_Witness ==
    /\ Len(hist) >= 1
    /\ IsInterrupt(Last)
    /\ IsOk(Last.res)
    /\ Last.pre.registers.sp = \h01
    /\ Last.pre.registers.pc # Last.addr
    /\ registers.sp = \hFE
    /\ registers.pc = Last.addr
    /\ StackAt(Cpu, \hFF) # 0

(* C13: Cpu.interrupt(target) followed at once by the RTI at target gives   *)
(* back pc, sp and p (U set, B clear) as they were before the interrupt,    *)
(* and a, x and y are as they were.                                         *)
C13_InterruptThenRti ==
    \A i \in 1..(Len(hist) - 1) :
        (IsInterrupt(hist[i]) /\ Executes(i + 1, "rti")) =>
            /\ IsOk(hist[i + 1].res)
            /\ After(i + 1).registers = hist[i].pre.registers
            /\ And(After(i + 1).registers.p, ENABLED_BIT + BREAK) = ENABLED_BIT

(* An interrupt taken after PHA with carry set and a = $FF, and returned    *)
(* from.                                                                    *)
C13_Witness ==
    /\ Len(hist) >= 2
    /\ IsInterrupt(Prev)
    /\ Executes(Len(hist), "rti")
    /\ IsOk(Last.res)
    /\ Prev.pre.registers.pc = \h8007
    /\ registers = Prev.pre.registers
    /\ Contains(registers.p, CARRY)
    /\ registers.a = \hFF

(* C14: a step that executes BRK (opcode $00 at pc) reports Break, leaves   *)
(* the return address pc + 2 and then the status with B and U set on the    *)
(* stack, sp three lower, and pc loaded from the IRQ vector at $FFFE.       *)
C14_Brk ==
    \A i \in 1..Len(hist) :
        Executes(i, "brk") =>
            LET before == hist[i].pre.registers
                s      == before.sp
            IN  /\ hist[i].res = Err("Break", 0)
                /\ After(i).registers.sp = U8(s + 256 - 3)
                /\ StackAt(After(i), s) = Shr(U16(before.pc + 2), 8)
                /\ StackAt(After(i), s - 1) = And(U16(before.pc + 2), \hFF)
                /\ StackAt(After(i), s - 2) = Or(Or(before.p, ENABLED_BIT), BREAK)
                /\ After(i).registers.pc = vectors.interrupt

(* The run so far is n calls of step and nothing else, from the reset       *)
(* vector.                                                                  *)
SteppedFromReset(n) ==
    /\ Len(hist) = n
    /\ \A i \in 1..n : IsStep(hist[i])
    /\ hist[1].pre.registers.pc = vectors.reset

(* C15: on a ROM with LDA #imm; STA zp; BRK at the reset vector, stepping   *)
(* from construction until step returns Break leaves ram[zp] = imm, a = imm *)
(* and Memory.cycles = 12.                                                  *)
C15_RunToBreak ==
    (rom \in BreakRoms /\ SteppedFromReset(3) /\ Last.res = Err("Break", 0)) =>
        /\ Rd(memory.ram, Rd(rom.prg_rom, 3)) = Rd(rom.prg_rom, 1)
        /\ registers.a = Rd(rom.prg_rom, 1)
        /\ memory.cycles = 12

(* C16: in every state reached from Cpu::new by step and interrupt calls    *)
(* the p register has bit 5 (U) set and bit 4 (B) clear; the state Cpu::new *)
(* gives is pc = the reset vector (or the pc given), a = x = y = 0,         *)
(* p = $24, sp = $FD.                                                       *)
C16_StatusBits ==
    /\ And(registers.p, ENABLED_BIT + BREAK) = ENABLED_BIT
    /\ Len(hist) = 0 =>
          /\ registers.pc \in {vectors.reset, StartPc}
          /\ vectors.reset = \h8000
          /\ registers.a = 0 /\ registers.x = 0 /\ registers.y = 0
          /\ registers.p = \h24
          /\ registers.sp = \hFD

(* PLP has pulled the byte $FF: p is $EF.                                   *)
C16_Witness ==
    /\ Len(hist) >= 1
    /\ Executes(Len(hist), "plp")
    /\ IsOk(Last.res)
    /\ StackAt(Last.pre, Last.pre.registers.sp + 1) = \hFF
    /\ registers.p = \hEF

----------------------------------------------------------------------------
(* Arithmetic and the indirect jump, under SpecOps.                         *)

(* The carry flag of cpu as 0 or 1.                                         *)
CarryOf(cpu) == IF Contains(cpu.registers.p, CARRY) THEN 1 ELSE 0

(* The operand ADC adds in call i: the immediate byte, complemented for     *)
(* SBC.                                                                     *)
AddendOf(i) ==
    IF Executes(i, "sbc")
    THEN Not8(Peek(hist[i].pre, hist[i].pre.registers.pc + 1))
    ELSE Peek(hist[i].pre, hist[i].pre.registers.pc + 1)

(* The sum a + m + C of call i, before it is cut to a byte.                 *)
SumOf(i) == hist[i].pre.registers.a + AddendOf(i) + CarryOf(hist[i].pre)

(* C17: ADC #m leaves a = r = (a + m + C) mod 256, C = (a + m + C > 255)    *)
(* and V = ((a ^ r) & (m ^ r) & $80) # 0; SBC #m leaves what ADC of ~m      *)
(* leaves.                                                                  *)
C17_AdcSbc ==
    \A i \in 1..Len(hist) :
        (Executes(i, "adc") \/ Executes(i, "sbc")) =>
            LET a == hist[i].pre.registers.a
                r == SumOf(i) % 256
            IN  /\ IsOk(hist[i].res)
                /\ After(i).registers.a = r
                /\ Contains(After(i).registers.p, CARRY) = (SumOf(i) > 255)
                /\ Contains(After(i).registers.p, OVERFLOW)
                      = (And(And(Xor(a, r), Xor(AddendOf(i), r)), \h80) # 0)

(* The 16-bit operand of the instruction call i executed.                   *)
OperandOf(i) ==
    Peek(hist[i].pre, hist[i].pre.registers.pc + 1)
        + 256 * Peek(hist[i].pre, hist[i].pre.registers.pc + 2)

(* Call i executed JMP (indirect).                                          *)
JumpsIndirect(i) == Executes(i, "jmp") /\ OpAt(hist[i].pre)[2] = "ad"

(* C18: JMP (pointer) takes the low byte of its target from pointer and the *)
(* high byte from pointer + 1, except that for a pointer $xxFF the high     *)
(* byte comes from $xx00.                                                   *)
C18_IndirectJump ==
    \A i \in 1..Len(hist) :
        JumpsIndirect(i) =>
            LET pointer == OperandOf(i)
                second  == IF pointer % 256 = \hFF THEN pointer - \hFF
                           ELSE pointer + 1
            IN  /\ IsOk(hist[i].res)
                /\ After(i).registers.pc =
                      Peek(hist[i].pre, pointer) + 256 * Peek(hist[i].pre, second)

(* JMP ($00FF) with $12 at $0000, $34 at $00FF and $56 at $0100 has gone to *)
(* $1234.                                                                   *)
C18_Witness ==
    /\ Len(hist) >= 1
    /\ JumpsIndirect(Len(hist))
    /\ OperandOf(Len(hist)) = \h00FF
    /\ Peek(Last.pre, \h0100) = \h56
    /\ Peek(Last.pre, \h0000) = \h12
    /\ registers.pc = \h1234

----------------------------------------------------------------------------
(* The cycle counter of the bus, under SpecPass.                            *)

(* The Memory after call i of a bus run.                                    *)
MemoryAfter(i) == IF i = Len(hist) THEN memory ELSE hist[i + 1].pre.memory

(* C19: Memory.get(addr) and Memory.set(addr, v) each add exactly 1 to      *)
(* Memory.cycles, whether they return Ok or an Unmapped error, for every    *)
(* access other than a write to $4014.                                      *)
C19_AccessCounted ==
    \A i \in 1..Len(hist) :
        (/\ hist[i].call \in {"get", "set"}
         /\ ~Called(hist[i], "set", \h4014)
         /\ hist[i].res.tag \in {"Ok", "Err"}) =>
            MemoryAfter(i).cycles = hist[i].pre.memory.cycles + 1

(* A read that returned UnmappedRead and then a write to $2006 that         *)
(* returned Ok: two cycles in all.                                          *)
C19_Witness ==
    /\ Len(hist) = 2
    /\ Called(hist[1], "get", \h200A)
    /\ hist[1].res = Err("UnmappedRead", \h200A)
    /\ Called(hist[2], "set", \h2006)
    /\ IsOk(hist[2].res)
    /\ memory.cycles = hist[1].pre.memory.cycles + 2

(* What the counted accessor gives for call i of the uncounted one, from    *)
(* the same Memory.                                                         *)
Counted(h) ==
    IF h.call = "pass_get" THEN get(h.pre.memory, h.addr)
    ELSE set(h.pre.memory, h.addr, h.value)

(* C20: pass_get(addr) and pass_set(addr, v) return what get and set return *)
(* and leave the Memory get and set leave, except that Memory.cycles is as  *)
(* it was before the call.                                                  *)
C20_PassLeavesCycles ==
    \A i \in 1..Len(hist) :
        (hist[i].call \in {"pass_get", "pass_set"} /\ hist[i].res.tag # "Panic") =>
            /\ hist[i].res = Counted(hist[i]).res
            /\ MemoryAfter(i) =
                  [Counted(hist[i]).m EXCEPT !.cycles = hist[i].pre.memory.cycles]

----------------------------------------------------------------------------
(* The cycle counter across steps and interrupts, under SpecIrq.            *)

(* The call this transition made is a step that returned (Ok or an error).  *)
StepReturned ==
    /\ Len(hist') = Len(hist) + 1
    /\ hist'[Len(hist')].call = "step"
    /\ hist'[Len(hist')].res.tag \in {"Ok", "Err"}

(* C21: across any sequence of step and interrupt calls Memory.cycles never *)
(* decreases, and every step that returns, with Ok or with an error, leaves *)
(* it strictly higher.                                                      *)
C21_CyclesMonotonic ==
    [][ /\ memory'.cycles >= memory.cycles
        /\ StepReturned => memory'.cycles > memory.cycles ]_vars

(* A step has returned InvalidOp, two reads after it began, and the next    *)
(* step has returned Break, one read after it began.                        *)
C21_Witness ==
    /\ Len(hist) = 2
    /\ IsStep(hist[1])
    /\ hist[1].res.tag = "Err"
    /\ hist[1].res.err = "InvalidOp"
    /\ Last.pre.memory.cycles = hist[1].pre.memory.cycles + 2
    /\ IsStep(Last)
    /\ Last.res = Err("Break", 0)
    /\ memory.cycles = Last.pre.memory.cycles + 1

----------------------------------------------------------------------------
(* The controllers, under SpecPad.                                          *)

(* Controller 1 of a Memory.                                                *)
Pad(m) == m.controllers[1]

(* Bit n of a byte, as 0 or 1.                                              *)
Bit(byte, n) == (byte \div (2 ^ n)) % 2

(* C22: a read of $4016 returns bit (clock mod 8) of the latch and adds 1   *)
(* to clock, so the n-th read returns button (n - 1) mod 8 in the order A,  *)
(* B, SELECT, START, UP, DOWN, LEFT, RIGHT; press and set change the latch  *)
(* only; a write to $4016 changes neither latch nor clock; a read of the    *)
(* NoController at $4017 returns 0.                                         *)
C22_ControllerReads ==
    \A i \in 1..Len(hist) :
        LET h     == hist[i]
            before == Pad(h.pre.memory)
            after  == Pad(MemoryAfter(i))
            nth    == Cardinality({j \in PadReads : j < i})
        IN  /\ Called(h, "get", \h4016) =>
                  /\ h.res = Ok(Bit(before.flags, before.clock % 8))
                  /\ before.clock = nth
                  /\ after = [before EXCEPT !.clock = before.clock + 1]
            /\ h.call = "press" =>
                  MemoryAfter(i) = [h.pre.memory EXCEPT !.controllers[1].flags = h.value]
            /\ h.call = "controller_set" =>
                  /\ after.clock = before.clock
                  /\ \A n \in 0..7 :
                        Bit(after.flags, n) =
                            IF 2 ^ n = h.addr THEN h.value ELSE Bit(before.flags, n)
                  /\ MemoryAfter(i) = [h.pre.memory EXCEPT !.controllers[1] = after]
            /\ Called(h, "set", \h4016) =>
                  /\ IsOk(h.res)
                  /\ MemoryAfter(i).controllers = h.pre.memory.controllers
            /\ Called(h, "get", \h4017) =>
                  /\ h.res = Ok(0)
                  /\ MemoryAfter(i).controllers = h.pre.memory.controllers

(* With the latch $A5 pressed before any read, nine reads have returned     *)
(* 1, 0, 1, 0, 0, 1, 0, 1 and then 1 again.                                 *)
C22_Witness ==
    /\ Len(hist) = 10
    /\ hist[1].call = "press"
    /\ \A i \in 2..10 : Called(hist[i], "get", \h4016)
    /\ [i \in 2..10 |-> hist[i].res.value] =
          (2 :> 1) @@ (3 :> 0) @@ (4 :> 1) @@ (5 :> 0) @@ (6 :> 0) @@ (7 :> 1)
          @@ (8 :> 0) @@ (9 :> 1) @@ (10 :> 1)
    /\ Pad(memory).clock = 9

----------------------------------------------------------------------------
(* The scanline counter and the status flags of the renderer, checked       *)
(* under SpecScan.                                                          *)

(* The dots of a frame, and the dot of the frame a renderer stands at.      *)
FrameDots == NES_SCANLINE_WIDTH * NES_SCANLINE_COUNT

ScanDot(r) == r.scan_y * NES_SCANLINE_WIDTH + r.scan_x

VBlankDot == 241 * NES_SCANLINE_WIDTH + 1

ClearDot == 261 * NES_SCANLINE_WIDTH + 1

(* The counter alone: both coordinates stay in range and the renderer       *)
(* stands at dot 3 * last_cycle of the frame, so that every dot moved it by *)
(* one, with the carry at 341 and the wrap at 262.                          *)
ScanCounter ==
    /\ renderer.scan_x \in 0..(NES_SCANLINE_WIDTH - 1)
    /\ renderer.scan_y \in 0..(NES_SCANLINE_COUNT - 1)
    /\ ScanDot(renderer) = (3 * renderer.last_cycle) % FrameDots

(* C23: the renderer counts 341 x 262 dots, scan_x in 0..340 and scan_y in  *)
(* 0..261, one dot at a time with carry and wrap, and in each frame the     *)
(* status vblank flag is raised once, at (241,1), and cleared once, at      *)
(* (261,1): once the first frame has passed (261,1) the flag is set exactly *)
(* between the two dots.                                                    *)
C23_ScanFrame ==
    /\ ScanCounter
    /\ 3 * renderer.last_cycle > ClearDot =>
           (memory.ppu.registers.status.v_blank_hit
               <=> (ScanDot(renderer) > VBlankDot
                    /\ ScanDot(renderer) <= ClearDot))

(* The call of render hist ends with, the dots it went through and whether  *)
(* a given dot of the frame is among them.                                  *)
Rendering == hist # <<>> /\ Last.call = "render"

Diff == 3 * (Last.value - Last.renderer.last_cycle)

Includes(dot) == (dot - ScanDot(Last.renderer)) % FrameDots < Diff

SpriteZeroShown ==
    /\ 0 \in DOMAIN memory.ppu.memory.oam
    /\ memory.ppu.memory.oam[0] = [y |-> 0, number |-> 0, mask |-> 0, x |-> 0]

HitDot == 1 * NES_SCANLINE_WIDTH

(* The sprite hit flag alone: clear once (261,1) is passed and until the    *)
(* pre-pass of line 1, set from that pre-pass to the next (261,1).          *)
SpriteHitFrame ==
    Rendering /\ Diff > 0 =>
        /\ Includes(ClearDot)
              /\ (ScanDot(renderer) > ClearDot \/ ScanDot(renderer) <= HitDot)
              => ~memory.ppu.registers.status.sprite_hit
        /\ SpriteZeroShown
              /\ ScanDot(renderer) > HitDot /\ ScanDot(renderer) <= ClearDot
              => memory.ppu.registers.status.sprite_hit

(* C25: once a call of render has processed (261,1), sprite_zero_hit and    *)
(* the status vblank flag are both false; from a pre-pass that sets         *)
(* sprite_zero_hit to the next (261,1) sprite_zero_hit stays true.          *)
C25_FlagsCleared ==
    /\ SpriteHitFrame
    /\ Rendering /\ Includes(ClearDot)
          /\ (ScanDot(renderer) > ClearDot \/ ScanDot(renderer) <= HitDot)
          => ~memory.ppu.registers.status.v_blank_hit

----------------------------------------------------------------------------
(* Snapshots, checked under SpecSnap.                                       *)

Twin == peer.value

(* The restored Cpu and the Cpu it was taken from have run alike since the  *)
(* restore: same registers, same result of the last step, same number of    *)
(* cycles spent.                                                            *)
SameTrace ==
    /\ Twin.registers = registers
    /\ Last.call = "step" => Twin.res = Last.res
    /\ Twin.memory.cycles - Twin.start = memory.cycles - Twin.from

(* C26: restoring CpuState::from(s) with the same ROM gives a Cpu whose     *)
(* CpuState equals that of s, and stepping the two with the same controller *)
(* input gives the same registers and the same cycle counts at every step,  *)
(* also for a program that reads cartridge RAM.                             *)
C26_SnapshotRoundTrip ==
    IsOk(peer) =>
        /\ Last.call = "restore" =>
              CpuStateFrom([registers |-> Twin.registers, memory |-> Twin.memory])
                  = CpuStateFrom(Cpu)
        /\ SameTrace

(* The same for the programs that leave cartridge RAM alone.                *)
SnapshotWithoutSaved ==
    IsOk(peer) /\ memory.saved = Empty =>
        /\ CpuStateFrom([registers |-> Twin.registers, memory |-> Twin.memory])
              = CpuStateFrom(Cpu)
        /\ SameTrace

----------------------------------------------------------------------------
(* Two runs of the emulation loop, checked under SpecLoop.                  *)

----------------------------------------------------------------------------
(* The controller latch between the two threads, checked under SpecGui.     *)

HostHolds == gui.host.at \in {"flags", "return"}

EmulationHolds == gui.emulation.at \in {"clock", "value", "count", "return"}

(* A thread whose last call has returned.                                   *)
Returned(thread) == thread.at = "idle" /\ thread # IdleThread

(* C28: with set on the host thread and read on the emulation thread, each  *)
(* call takes the latch mutex exactly once and holds it from there to its   *)
(* return and not after it; a thread waits for the mutex only while the     *)
(* other thread is inside a call that goes on to release it, so no          *)
(* interleaving deadlocks; a read returns bit (clock mod 8) of the latch as *)
(* it was when the read got the lock and leaves clock one higher; a set     *)
(* leaves clock as it found it.                                             *)
C28_LatchMutex ==
    /\ (gui.owner = "host") <=> HostHolds
    /\ (gui.owner = "emulation") <=> EmulationHolds
    /\ gui.host.locks = (IF HostHolds \/ Returned(gui.host) THEN 1 ELSE 0)
    /\ gui.emulation.locks
          = (IF EmulationHolds \/ Returned(gui.emulation) THEN 1 ELSE 0)
    /\ (gui.host.at = "lock" /\ ~CanLock(gui)) => EmulationHolds
    /\ (gui.emulation.at = "lock" /\ ~CanLock(gui)) => HostHolds
    /\ HostHolds => gui.inner.clock = gui.host.seen.clock
    /\ gui.emulation.at \in {"clock", "value", "count"} =>
          gui.inner.flags = gui.emulation.seen.flags
    /\ gui.emulation.at = "return" =>
          /\ gui.emulation.value
                = (Bit(gui.emulation.seen.flags, gui.emulation.seen.clock % 8) = 1)
          /\ gui.inner.clock = gui.emulation.seen.clock + 1
          /\ gui.inner.flags = gui.emulation.seen.flags

C28_Witness ==
    /\ gui.emulation.at = "return"
    /\ gui.emulation.seen.clock = 8
    /\ gui.emulation.value
    /\ gui.host.at = "lock"
    /\ gui.inner.flags = 1

----------------------------------------------------------------------------
(* Failed writes through $2007, checked under SpecPort.                     *)

(* Step i is a  STA $2007  made while v is outside $2000..$3FFF.            *)
StoresUnmapped(i) ==
    /\ IsStep(hist[i])
    /\ Peek(hist[i].pre, hist[i].pre.registers.pc) = \h8D
    /\ Peek(hist[i].pre, hist[i].pre.registers.pc + 1) = \h07
    /\ Peek(hist[i].pre, hist[i].pre.registers.pc + 2) = \h20
    /\ hist[i].pre.memory.ppu.registers.render.v \notin \h2000..\h3FFF

(* C29: a write to $2007 while v is in $0000..$1FFF or at or above $4000    *)
(* makes Memory.set return PpuError(UnmappedWrite(v)) and step return       *)
(* Memory(PpuError(UnmappedWrite(v))), and leaves v, read_buffer, the name  *)
(* tables and the palette as they were.                                     *)
C29_UnmappedWrite ==
    \A i \in 1..Len(hist) :
        StoresUnmapped(i) =>
            /\ set(hist[i].pre.memory, \h2007, hist[i].pre.registers.a).res
                  = Err("PpuError(UnmappedWrite)",
                        hist[i].pre.memory.ppu.registers.render.v)
            /\ hist[i].res
                  = Err("Memory(PpuError(UnmappedWrite))",
                        hist[i].pre.memory.ppu.registers.render.v)
            /\ After(i).memory.ppu.registers.render.v
                  = hist[i].pre.memory.ppu.registers.render.v
            /\ After(i).memory.ppu.registers.read_buffer
                  = hist[i].pre.memory.ppu.registers.read_buffer
            /\ After(i).memory.ppu.memory.names
                  = hist[i].pre.memory.ppu.memory.names
            /\ After(i).memory.ppu.memory.palette
                  = hist[i].pre.memory.ppu.memory.palette

C29_Witness ==
    \E i \in 1..Len(hist) :
        /\ StoresUnmapped(i)
        /\ hist[i].pre.memory.ppu.registers.render.v = \h4000
        /\ hist[i].pre.memory.ppu.registers.control.increment_32
        /\ hist[i].res = Err("Memory(PpuError(UnmappedWrite))", \h4000)
        /\ i < Len(hist)

----------------------------------------------------------------------------
(* Read-modify-write on absolute,X, checked under SpecCpu.                  *)

(* The last call was an Ok step of one of the given instructions in         *)
(* absolute,X mode.                                                         *)
ModifiedIndexed(names) ==
    /\ Len(hist) >= 1
    /\ IsStep(Last)
    /\ IsOk(Last.res)
    /\ OpAt(Last.pre)[1] \in names
    /\ OpAt(Last.pre)[2] = "ax"

(* INC and DEC absolute,X take 7 cycles with and without a page crossing.   *)
IncDecIndexedCost ==
    ModifiedIndexed({"inc", "dec"}) => StepCycles(Last, memory.cycles) = 7

(* The shifts and rotates on absolute,X take 7 cycles without a page        *)
(* crossing and 8 with one.                                                 *)
ShiftIndexedCost ==
    ModifiedIndexed({"asl", "lsr", "rol", "ror"}) =>
        StepCycles(Last, memory.cycles)
            = IF CrossesPage(Peek(Last.pre, Last.pre.registers.pc + 1),
                             Last.pre.registers.x)
              THEN 8 ELSE 7

(* C30: ASL, LSR, ROL, ROR, INC and DEC on absolute,X take 7 cycles whether *)
(* or not adding X to the low byte of the base address crosses a page.      *)
C30_ModifyIndexedCost ==
    ModifiedIndexed({"asl", "lsr", "rol", "ror", "inc", "dec"}) =>
        StepCycles(Last, memory.cycles) = 7

----------------------------------------------------------------------------
(* Zero-page indexed addressing, checked under SpecCpu.                     *)

(* The last call was a step of an instruction in zero page,X or zero        *)
(* page,Y mode.                                                             *)
ZeroPageIndexed ==
    /\ Len(hist) >= 1
    /\ IsStep(Last)
    /\ OpAt(Last.pre)[1] # ""
    /\ OpAt(Last.pre)[2] \in {"zx", "zy"}

(* (o + r) mod 256 for the operand byte and index register of the last step *)
WrappedAddress ==
    U8(Peek(Last.pre, Last.pre.registers.pc + 1)
       + (IF OpAt(Last.pre)[2] = "zx" THEN Last.pre.registers.x
          ELSE Last.pre.registers.y))

(* The last step returned Ok and worked on the byte at WrappedAddress:      *)
(* loads took it, stores wrote it, INC and DEC changed it by one.           *)
UsedWrapped ==
    LET name == OpAt(Last.pre)[1]
        old  == Peek(Last.pre, WrappedAddress)
        new  == Peek(Cpu, WrappedAddress)
    IN  /\ IsOk(Last.res)
        /\ name = "lda" => registers.a = old
        /\ name = "ldx" => registers.x = old
        /\ name = "ldy" => registers.y = old
        /\ name = "sta" => new = Last.pre.registers.a
        /\ name = "stx" => new = Last.pre.registers.x
        /\ name = "sty" => new = Last.pre.registers.y
        /\ name = "inc" => new = U8(old + 1)
        /\ name = "dec" => new = U8(old + 255)

(* Every zero-page indexed instruction other than INC and DEC wraps in the  *)
(* zero page, and so do INC and DEC in a build without overflow checks.     *)
ZeroPageWrapsElsewhere ==
    (/\ ZeroPageIndexed
     /\ OpAt(Last.pre)[1] \notin {"inc", "dec"} \/ ~build.overflow_checks)
        => UsedWrapped

(* C31: every instruction in a zero-page indexed mode works on the address  *)
(* (o + r) mod 256 and completes without fault, INC zp,X and DEC zp,X with  *)
(* o + X > $FF included.                                                    *)
C31_ZeroPageWraps == ZeroPageIndexed => UsedWrapped

----------------------------------------------------------------------------
(* Errors of step, checked under SpecFetch.                                 *)

(* The result of the fetch of byte k of the instruction h stepped: its      *)
(* opcode is byte 0.                                                        *)
Fetched(h, k) == get(h.pre.memory, U16(h.pre.registers.pc + k)).res

(* The number of operand bytes of the instruction h stepped, 0 where the    *)
(* opcode could not be read.                                                *)
OperandSize(h) ==
    IF IsOk(Fetched(h, 0)) THEN OPCODES[Fetched(h, 0).value + 1][3] ELSE 0

(* The first byte of the instruction whose fetch fails, -1 when none does.  *)
FailedFetch(h) ==
    IF ~IsOk(Fetched(h, 0)) THEN 0
    ELSE IF OperandSize(h) >= 1 /\ ~IsOk(Fetched(h, 1)) THEN 1
    ELSE IF OperandSize(h) = 2 /\ ~IsOk(Fetched(h, 2)) THEN 2
    ELSE -1

(* A step whose opcode fetch fails returns Memory(that error), and one      *)
(* whose opcode has no handler returns InvalidOp(op).                       *)
OpcodeFetchErrors ==
    (Len(hist) >= 1 /\ IsStep(Last)) =>
        /\ FailedFetch(Last) = 0 => Last.res = FromMemoryError(Fetched(Last, 0))
        /\ (/\ IsOk(Fetched(Last, 0))
            /\ OPCODES[Fetched(Last, 0).value + 1][1] = "")
              => Last.res = Err("InvalidOp", Fetched(Last, 0).value)

(* A step whose opcode has a handler and whose operand fetch fails returns  *)
(* InvalidOp(op).                                                           *)
OperandFetchErrors ==
    (Len(hist) >= 1 /\ IsStep(Last) /\ FailedFetch(Last) >= 1) =>
        Last.res = Err("InvalidOp", Fetched(Last, 0).value)

(* C32: a step in which the fetch of the opcode or of an operand byte fails *)
(* returns Memory(that error), and a step returns InvalidOp(op) only when   *)
(* the opcode byte op has no handler.                                       *)
C32_FetchErrors ==
    (Len(hist) >= 1 /\ IsStep(Last)) =>
        /\ FailedFetch(Last) >= 0
              => Last.res = FromMemoryError(Fetched(Last, FailedFetch(Last)))
        /\ (Last.res.tag = "Err" /\ Last.res.err = "InvalidOp")
              => OPCODES[Last.res.at + 1][1] = ""

(* The number of bytes the closure next read in the step h: every fetch     *)
(* up to and including the first failing one.                               *)
FetchesMade(h) ==
    IF FailedFetch(h) >= 0 THEN FailedFetch(h) + 1 ELSE 1 + OperandSize(h)

(* After a step that returns an error pc is past every byte the step        *)
(* fetched, the failing one included.                                       *)
ErrorLeavesPcAdvanced ==
    (Len(hist) >= 1 /\ IsStep(Last) /\ Last.res.tag = "Err") =>
        registers.pc = U16(Last.pre.registers.pc + FetchesMade(Last))

(* C33: when step returns an error (InvalidOp, Memory, Break or Stop), pc   *)
(* is the address of the failing instruction, the value it had when step    *)
(* was called.                                                              *)
C33_ErrorKeepsPc ==
    (Len(hist) >= 1 /\ IsStep(Last) /\ Last.res.tag = "Err") =>
        registers.pc = Last.pre.registers.pc

----------------------------------------------------------------------------
(* The hardware renderer against the software renderer, checked under       *)
(* SpecPair.                                                                *)

(* Both renderers have taken the call hist ends with.                       *)
Paired == Rendering /\ peer # None

(* The two renderers stand at the same dot after every call.                *)
SameScan ==
    Paired =>
        /\ peer.value.renderer.scan_x = renderer.scan_x
        /\ peer.value.renderer.scan_y = renderer.scan_y
        /\ peer.value.renderer.last_cycle = renderer.last_cycle

(* The dots the hardware renderer counts as passed are those after the      *)
(* start up to and including the end of the call, and only while the call   *)
(* does not wrap to line 0: one dot later than the dots the software        *)
(* renderer goes through.                                                   *)
HardwarePasses ==
    Paired =>
        /\ (peer.value.res = SendNMI)
              <=> /\ ScanDot(Last.renderer) < VBlankDot
                  /\ ScanDot(Last.renderer) + Diff >= VBlankDot
                  /\ ScanDot(Last.renderer) + Diff < FrameDots
        /\ peer.value.cleared
              <=> /\ ScanDot(Last.renderer) < ClearDot
                  /\ ScanDot(Last.renderer) + Diff >= ClearDot
                  /\ ScanDot(Last.renderer) + Diff < FrameDots

(* C34: fed the same calls of render, the hardware renderer and the         *)
(* software renderer stand at the same (scan_x, scan_y) after every call,   *)
(* return SendNMI on the same calls and clear sprite_hit for dot (261,1) on *)
(* the same calls.                                                          *)
C34_SameTiming ==
    Paired =>
        /\ peer.value.renderer.scan_x = renderer.scan_x
        /\ peer.value.renderer.scan_y = renderer.scan_y
        /\ (peer.value.res = SendNMI) <=> (Last.res = SendNMI)
        /\ peer.value.cleared <=> Includes(ClearDot)

----------------------------------------------------------------------------
(* The range of the loopy registers, checked under SpecLoopy.               *)

Loopy == memory.ppu.registers.render

(* C35: after any sequence of writes to $2000, $2005, $2006, $2007 and      *)
(* reads of $2002, $2007 on a fresh Ppu, failing accesses included,         *)
(* t <= $7FFF, v <= $7FFF and x <= 7.                                       *)
C35_LoopyInRange ==
    /\ Loopy.t \in 0..\h7FFF
    /\ Loopy.v \in 0..\h7FFF
    /\ Loopy.x \in 0..7

(* v has left the PPU address space through the increments of $2007, and an *)
(* access to $2007 has failed there and left it alone.                      *)
C35_Witness ==
    /\ hist # <<>>
    /\ Last.addr = \h2007
    /\ Last.res.tag = "Err"
    /\ Last.pre.memory.ppu.registers.render.v = \h401F
    /\ Loopy.v = \h401F

----------------------------------------------------------------------------
(* The framing of messages, checked under SpecWire.                         *)

(* The bytes of the first n messages sent, and the bytes the connection s   *)
(* has read.                                                                *)
Framed(n) == Len(Stream(SubSeq(server.sent, 1, n)))

Received(s) == Framed(Len(s.sent)) - Len(s.wire)

(* The message after those popped is completely in the buffer of s.         *)
NextComplete(s) ==
    /\ Len(s.popped) < Len(s.sent)
    /\ Received(s) >= Framed(Len(s.popped) + 1)

(* C36: however the byte stream of messages sent with send_message is cut   *)
(* into chunks and however pops are interleaved, the payloads pop returns   *)
(* are those sent, whole and in order, and a pop returns None exactly when  *)
(* the next message is not yet completely buffered.                         *)
C36_Framing ==
    /\ Len(server.popped) <= Len(server.sent)
    /\ server.popped = SubSeq(server.sent, 1, Len(server.popped))
    /\ (hist # <<>> /\ Last.call = "pop") =>
           /\ (Last.res = None) <=> ~NextComplete(Last.pre)
           /\ Last.res # None =>
                 /\ IsOk(Last.res)
                 /\ Last.res.value = server.sent[Len(Last.pre.popped) + 1]

C36_Witness ==
    /\ server.wire = <<>>
    /\ server.popped = server.sent
    /\ Len(server.popped) = 2
    /\ server.popped[1] = <<>>
    /\ server.popped[2] = LongPayload
    /\ Last.call = "pop"
    /\ Last.res = None

----------------------------------------------------------------------------
(* The hand-off of frames, checked under SpecScan.                          *)

(* The frame the loop of the last call of render left, before the return.   *)
FrameOfLoop ==
    Dots([ renderer |-> [Last.renderer EXCEPT !.last_cycle = Last.value],
           ppu |-> Last.pre.memory.ppu,
           has_v_blank |-> FALSE, panic |-> FALSE ],
         Diff).renderer.frame

(* C37: render hands one frame to the sink on each call that returns        *)
(* SendNMI and none on a call that returns None, so none at all while       *)
(* control.gen_nmi is clear; after the hand-off the renderer's frame is the *)
(* default frame, and the frames handed over before stay as they were.      *)
C37_FrameHandOff ==
    /\ ~memory.ppu.registers.control.gen_nmi => renderer.pushed = <<>>
    /\ Rendering =>
          /\ Last.res \in {SendNMI, None}
          /\ Last.res = None =>
                /\ renderer.pushed = Last.renderer.pushed
                /\ Len(renderer.pushed) = Len(Last.renderer.pushed)
          /\ Last.res = SendNMI =>
                /\ Len(renderer.pushed) = Len(Last.renderer.pushed) + 1
                /\ SubSeq(renderer.pushed, 1, Len(Last.renderer.pushed))
                      = Last.renderer.pushed
                /\ renderer.pushed[Len(renderer.pushed)] = FrameOfLoop
                /\ renderer.frame = DefaultRenderedFrame
                /\ \A i \in DOMAIN renderer.frame : renderer.frame[i] = <<255, 255, 255, 255>>

C37_Witness ==
    /\ Rendering
    /\ Last.res = SendNMI
    /\ Len(renderer.pushed) = 2
    /\ renderer.pushed[2] # DefaultRenderedFrame
    /\ renderer.pushed[1] # DefaultRenderedFrame
    /\ renderer.frame = DefaultRenderedFrame

----------------------------------------------------------------------------
(* Memory requests, checked under SpecServe.                                *)

(* The ports whose read changes the Ppu or a controller.                    *)
ReadPorts == {\h2002, \h2004, \h2007, \h4016, \h4017}

(* Call i served requests none of which names such a port.                  *)
PlainRequests(i) ==
    \A k \in DOMAIN hist[i].value : U16(hist[i].value[k][2]) \notin ReadPorts

(* Requests for RAM, cartridge RAM, ROM and unmapped addresses leave the    *)
(* Cpu as it was.                                                           *)
PlainValuesLeaveState ==
    \A i \in 1..Len(hist) :
        (hist[i].call = "get_frame" /\ PlainRequests(i)) =>
            After(i) = hist[i].pre

(* C38: serving memory_requests leaves the emulator as it was, for every    *)
(* requested address: registers, RAM, cycle count, PPU registers and the    *)
(* controller clock are the same after get_values as before it.             *)
C38_ValuesLeaveState ==
    \A i \in 1..Len(hist) :
        hist[i].call = "get_frame" =>
            /\ After(i).registers = hist[i].pre.registers
            /\ After(i).memory.ram = hist[i].pre.memory.ram
            /\ After(i).memory.cycles = hist[i].pre.memory.cycles
            /\ After(i).memory.ppu.registers = hist[i].pre.memory.ppu.registers
            /\ After(i).memory.controllers = hist[i].pre.memory.controllers

----------------------------------------------------------------------------
(* SetState, checked under SpecServe.                                       *)

(* The step is the arm SetState.                                            *)
SetStateServed ==
    /\ Len(hist') = Len(hist) + 1
    /\ hist'[Len(hist')].call = "set_state"

(* The payload did not decode, or it decoded to a state with a Vec of a     *)
(* length restore does not take.                                            *)
Rejected(payload) ==
    \/ ~IsOk(payload)
    \/ payload.value.ram.len # RAM_SIZE
    \/ payload.value.ppu.memory.oam.len # SPRITE_COUNT
    \/ payload.value.ppu.memory.names_len # 4
    \/ \E page \in 0..3 : payload.value.ppu.memory.names[page].len # NAME_TABLE_SIZE

(* The reply the step sent.                                                 *)
Replied == server'.replies[Len(server'.replies)]

SetStateKept ==
    /\ registers' = registers
    /\ vectors' = vectors
    /\ memory' = memory
    /\ renderer' = renderer
    /\ Len(server'.replies) = Len(server.replies) + 1
    /\ Replied.kind = "SetStateResult"
    /\ Replied.parse_error # ""
    /\ server'.open

SetStateReplaced(state) ==
    /\ Ok([registers |-> registers', vectors |-> vectors', memory |-> memory'])
           = restore(state, <<GenericController, NoController>>)
    /\ renderer' = NewRenderer
    /\ Len(server'.replies) = Len(server.replies) + 1
    /\ Replied.kind = "SetStateResult"
    /\ Replied.parse_error = ""
    /\ server'.open

(* C39: a SetState whose bytes fail to decode, or whose state restore       *)
(* rejects (ram not of $800 bytes, OAM not of 64 sprites, not 4 name        *)
(* tables, a name table not of $400 bytes), leaves cpu and renderer as      *)
(* they were, is answered with a SetStateResult that carries parse_error    *)
(* and keeps the connection open; a successful restore replaces the cpu     *)
(* and, with it, the renderer by a new one.                                 *)
C39_SetStateAtomic ==
    [][SetStateServed =>
          IF Rejected(hist'[Len(hist')].value)
          THEN SetStateKept
          ELSE SetStateReplaced(hist'[Len(hist')].value.value)]_vars

(* A state with three name tables was rejected after the renderer had       *)
(* advanced, and the instance is as before.                                 *)
C39_Witness ==
    /\ hist # <<>>
    /\ Last.call = "set_state"
    /\ IsOk(Last.value)
    /\ Last.value.value.ppu.memory.names_len = 3
    /\ Last.instance.renderer # NewRenderer
    /\ renderer = Last.instance.renderer
    /\ Cpu = Last.pre
    /\ Cpu # NewCpu(-1, <<GenericController, NoController>>)
    /\ server.replies[Len(server.replies)].kind = "SetStateResult"
    /\ server.replies[Len(server.replies)].parse_error # ""

----------------------------------------------------------------------------
(* run_frames, checked under SpecFrames.                                    *)

(* The step is a pass of the loop of run_frames, and what cpu.step() gave   *)
(* in it.                                                                   *)
PassMade ==
    /\ server.run.active
    /\ server'.run.passes = server.run.passes + 1

PassStep == step(Cpu)

(* The renderer pushed a frame in the step.                                 *)
FrameProduced == Len(renderer'.pushed) = Len(renderer.pushed) + 1

(* The registers after the step are those of an interrupt to vectors.nmi    *)
(* that follows the instruction: pc and status pushed, pc at the vector.    *)
NmiDelivered ==
    /\ registers'.pc = vectors.nmi
    /\ registers'.sp = U8(PassStep.c.registers.sp - 3)
    /\ memory'.ram[\h0100 + U8(PassStep.c.registers.sp - 1)]
           = And(PassStep.c.registers.pc, \hFF)
    /\ memory'.ram[\h0100 + PassStep.c.registers.sp]
           = Shr(PassStep.c.registers.pc, 8)

(* A pass whose step fails ends the call with that error: no render, no     *)
(* interrupt, and an ActionResult that carries the error.                   *)
PassFailed ==
    /\ ~server'.run.active
    /\ server'.run.frame_count = server.run.frame_count
    /\ renderer' = renderer
    /\ registers' = PassStep.c.registers
    /\ memory' = PassStep.c.memory
    /\ Len(server'.replies) = Len(server.replies) + 1
    /\ Replied.kind = "ActionResult"
    /\ Replied.error = PassStep.res

(* A pass whose step succeeds counts a frame exactly when the renderer      *)
(* produced one, and delivers the NMI exactly then.                         *)
PassCounted ==
    /\ Len(renderer'.pushed) - Len(renderer.pushed) \in {0, 1}
    /\ server'.run.frame_count
           = server.run.frame_count + Len(renderer'.pushed) - Len(renderer.pushed)
    /\ IF FrameProduced THEN NmiDelivered
       ELSE registers' = PassStep.c.registers
    /\ server'.run.active

(* The step is the Ok return of run_frames, and the request it answers.     *)
RunReturned ==
    /\ server.run.active
    /\ ~server'.run.active
    /\ IsOk(hist'[Len(hist')].res)

Asked == hist[Len(hist)]

(* At the return the renderer has produced skip_frames frames since the     *)
(* call, and a call for no frame has stepped nothing.                       *)
ReturnedAfterFrames ==
    /\ Asked.call = "take_action"
    /\ Len(renderer.pushed) - Len(Asked.instance.renderer.pushed)
           = server.run.skip_frames
    /\ server.run.frame_count = server.run.skip_frames
    /\ server.run.skip_frames = 0 =>
          /\ server.run.passes = 0
          /\ registers = Asked.pre.registers
          /\ memory.cycles = Asked.pre.memory.cycles
          /\ memory.ram = Asked.pre.memory.ram
          /\ renderer = Asked.instance.renderer

(* The program never sets the NMI bit of $2000.                             *)
NeverEnables == rom = FramesRom(\h00, FramesHandler)

(* A call for one frame or more on such a program has not returned.         *)
StillRunning ==
    (NeverEnables /\ hist # <<>> /\ hist[1].value >= 1) =>
        /\ Len(hist) = 1
        /\ server.run.active
        /\ server.run.frame_count = 0

(* C40: run_frames(n, input) returns Ok only after the renderer has         *)
(* produced exactly n frames since the call began, with one interrupt to    *)
(* vectors.nmi per produced frame before the next instruction is stepped;   *)
(* with n = 0 it steps no instruction; on the first CpuError it returns     *)
(* that error and delivers no further NMI; and a program that never         *)
(* enables NMI generation keeps it from returning.                          *)
C40_RunFrames ==
    /\ []StillRunning
    /\ [][/\ PassMade => IF IsOk(PassStep.res) THEN PassCounted ELSE PassFailed
          /\ RunReturned => ReturnedAfterFrames]_vars

(* A call for two frames returned after two frames, more than two hundred   *)
(* passes and two interrupts, the second of which left pc at the handler.   *)
C40_Witness ==
    /\ Len(hist) = 2
    /\ hist[1].call = "take_action"
    /\ hist[1].value = 2
    /\ Last.call = "action_result"
    /\ IsOk(Last.res)
    /\ Len(renderer.pushed) = 2
    /\ server.run.passes > 200
    /\ registers.pc = FramesHandler
    /\ server.frame = renderer.pushed[2]

====
